---------------------------- MODULE Spec2Model ----------------------------
(***************************************************************************)
(* A model of ssr-sandbox: the props sanitizer (src/src/sanitize.rs), the  *)
(* sandboxed module loader (src/src/loader.rs), the execution driver       *)
(* (src/src/runtime.rs) and the server-mode protocol loop                  *)
(* (src/src/main.rs).                                                      *)
(*                                                                         *)
(* Rust strings are TLA+ strings; TLC evaluates Len, \o and SubSeq on      *)
(* them, so str::contains, str::starts_with and format! are computed on    *)
(* the text itself.                                                        *)
(***************************************************************************)
EXTENDS Integers, Sequences, FiniteSets, TLC

VARIABLES
    sInput,     \* sanitizer: the serde_json::Value handed to sanitize_props
    sResult,    \* sanitizer: the Result returned by sanitize_props
    sPc,        \* sanitizer: "start" before the call, "done" after it
    lChunksDir, \* loader: the chunks_dir given to SandboxedLoader::new
    lEntry,     \* loader: the entry line of the request ("" for a module's import)
    lSpecifier, \* loader: the specifier handed to resolve
    lReferrer,  \* loader: the referrer handed to resolve
    lResolved,  \* loader: the Result of resolve
    lLoaded,    \* loader: the Result of load
    lReads,     \* loader: canonical paths of the files whose content was read
    lPc,        \* loader: "entry", "start", "failed", "resolved", "loaded" or "direct"
    config,     \* server: the SandboxConfig of run_server
    runtime,    \* server: the isolate in `runtime`
    pc,         \* server: where run_server stands
    entry_line, \* server: line 1 of the request, as read
    props_line, \* server: line 2 of the request, as read
    props,      \* server: the sanitized props
    entry_specifier, \* server: the file URL of the entry, as put into render_code
    result,     \* server: the Result of execute_ssr (of execute_ssr_inner while
                \*         execute_ssr runs), or the error of a rejected props line
    timer,      \* server: the timer task: "none", "armed", "fired" or "aborted"
    stdout,     \* server: the output stream: bytes buffered, and the chunks flushed
                \*         since the controller sent its last request
    stderr,     \* server: the lines printed to stderr since then
    requests,   \* server: the number of requests read
    terminated, \* server: the engine terminated the JS of this request
    stdin,      \* server: the lines written to standard input and not yet read;
                \*         "" in it is the end of the stream
    answered,   \* server: of the request answered last: whether its JS was
                \*         terminated, whether it was answered as timed out, whether
                \*         its props line was rejected, and the id of the isolate
                \*         that served it
    fAllowed,   \* fetch: FetchConfig.allowed_origins
    fOriginal,  \* fetch: the URL the caller passed to fetch
    fRequest,   \* fetch: the FetchRequest of the current do_fetch call
    fUrl,       \* fetch: the parsed URL of the current do_fetch call
    fSent,      \* fetch: the HTTP requests sent so far, in order
    fResponse,  \* fetch: the status and Location of the response received last
    fResult,    \* fetch: the Result of the outermost do_fetch
    fPc,        \* fetch: "call", "sent" (awaiting the response) or "done"
    mArgs,      \* main: the command line: option values and positional arguments
    mOptions,   \* main: max_heap_size and timeout_ms as main passes them on
    mConfig,    \* main: the SandboxConfig run_server or run_single_shot builds
    mExec,      \* main: whether execute_ssr was called, and its timeout_ms argument
    mExit,      \* main: the Result main returns
    mPc         \* main: "main", "run_server", "serving", "run_single_shot" or "exit"

sanVars == <<sInput, sResult, sPc>>

loaderVars == <<lChunksDir, lEntry, lSpecifier, lReferrer, lResolved, lLoaded, lReads, lPc>>

fetchVars == <<fAllowed, fOriginal, fRequest, fUrl, fSent, fResponse, fResult, fPc>>

mainVars == <<mArgs, mOptions, mConfig, mExec, mExit, mPc>>

serverVars == <<config, runtime, pc, entry_line, props_line, props, entry_specifier, result, timer,
                stdout, stderr, requests, terminated, answered, stdin>>

vars == <<sInput, sResult, sPc,
          lChunksDir, lEntry, lSpecifier, lReferrer, lResolved, lLoaded, lReads, lPc,
          config, runtime, pc, entry_line, props_line, props, entry_specifier, result, timer,
          stdout, stderr, requests, terminated, answered, stdin,
          fAllowed, fOriginal, fRequest, fUrl, fSent, fResponse, fResult, fPc,
          mArgs, mOptions, mConfig, mExec, mExit, mPc>>

-----------------------------------------------------------------------------
(* Strings                                                                 *)

\* str::starts_with
StartsWith(s, p) == Len(s) >= Len(p) /\ SubSeq(s, 1, Len(p)) = p

\* str::contains
Contains(s, sub) ==
    \E i \in 1..(Len(s) - Len(sub) + 1) : SubSeq(s, i, i + Len(sub) - 1) = sub

\* str::find of a one-character pattern: its first index, 0 when absent
IndexOf(s, c) ==
    IF \E i \in 1..Len(s) : SubSeq(s, i, i) = c
    THEN CHOOSE i \in 1..Len(s) :
            SubSeq(s, i, i) = c /\ \A j \in 1..(i - 1) : SubSeq(s, j, j) # c
    ELSE 0

\* str::rfind of a one-character pattern: its last index, 0 when absent
LastIndexOf(s, c) ==
    IF \E i \in 1..Len(s) : SubSeq(s, i, i) = c
    THEN CHOOSE i \in 1..Len(s) :
            SubSeq(s, i, i) = c /\ \A j \in (i + 1)..Len(s) : SubSeq(s, j, j) # c
    ELSE 0

UpperCase == "ABCDEFGHIJKLMNOPQRSTUVWXYZ"
LowerCase == "abcdefghijklmnopqrstuvwxyz"

\* char::to_ascii_lowercase
LowerChar(c) ==
    LET i == IndexOf(UpperCase, c)
    IN  IF i = 0 THEN c ELSE SubSeq(LowerCase, i, i)

RECURSIVE ToLower(_)
\* str::to_ascii_lowercase
ToLower(s) ==
    IF Len(s) = 0 THEN ""
    ELSE LowerChar(SubSeq(s, 1, 1)) \o ToLower(SubSeq(s, 2, Len(s)))

UpperChar(c) ==
    LET i == IndexOf(LowerCase, c)
    IN  IF i = 0 THEN c ELSE SubSeq(UpperCase, i, i)

RECURSIVE ToUpper(_)
\* str::to_uppercase, for ASCII text
ToUpper(s) ==
    IF Len(s) = 0 THEN ""
    ELSE UpperChar(SubSeq(s, 1, 1)) \o ToUpper(SubSeq(s, 2, Len(s)))

RECURSIVE SplitOn(_, _)
\* str::split on a one-character separator
SplitOn(s, sep) ==
    LET i == IndexOf(s, sep)
    IN  IF i = 0 THEN <<s>>
        ELSE <<SubSeq(s, 1, i - 1)>> \o SplitOn(SubSeq(s, i + 1, Len(s)), sep)

RECURSIVE JoinWith(_, _)
\* [String]::join, each part preceded by the separator
JoinWith(parts, sep) ==
    IF parts = <<>> THEN ""
    ELSE sep \o Head(parts) \o JoinWith(Tail(parts), sep)

-----------------------------------------------------------------------------
(* Result<T, anyhow::Error>: the error is carried as its Display text.     *)

Ok(v)  == [ok |-> TRUE,  val |-> v, err |-> ""]
Err(m) == [ok |-> FALSE, val |-> <<>>, err |-> m]

-----------------------------------------------------------------------------
(* serde_json::Value.  A primitive carries its JSON text; an array its     *)
(* elements; an object its (key, value) pairs in the map's iteration order.*)

JPrim(t)   == [kind |-> "prim", prim |-> t,  items |-> <<>>, fields |-> <<>>]
JArr(xs)   == [kind |-> "arr",  prim |-> "", items |-> xs,   fields |-> <<>>]
JObj(kvs)  == [kind |-> "obj",  prim |-> "", items |-> <<>>, fields |-> kvs]

\* Map::insert: replaces the value of a key already present, appends otherwise.
MapInsert(kvs, k, v) ==
    IF \E i \in 1..Len(kvs) : kvs[i][1] = k
    THEN [i \in 1..Len(kvs) |-> IF kvs[i][1] = k THEN <<k, v>> ELSE kvs[i]]
    ELSE Append(kvs, <<k, v>>)

-----------------------------------------------------------------------------
(* src/src/sanitize.rs                                                     *)

MAX_DEPTH == 32

DANGEROUS_KEYS == <<"__proto__", "constructor", "prototype">>

\* DANGEROUS_KEYS.contains(&key.as_str())
IsDangerousKey(k) == \E i \in 1..Len(DANGEROUS_KEYS) : DANGEROUS_KEYS[i] = k

TooDeepError ==
    Err("Props nesting too deep (max " \o ToString(MAX_DEPTH)
        \o " levels) - possible DoS attempt")

PollutionError(key) ==
    Err("Prototype pollution attempt: '" \o key \o "' key is forbidden in props")

\* if depth > MAX_DEPTH
DepthExceededOffByOne(depth) == depth >= MAX_DEPTH

DepthExceeded(depth) == depth > MAX_DEPTH

\* for key in map.keys() { if DANGEROUS_KEYS.contains(..) { return Err } }:
\* the index of the first dangerous key in iteration order, 0 when there is none.
FirstDangerous(kvs) ==
    IF \E i \in 1..Len(kvs) : IsDangerousKey(kvs[i][1])
    THEN CHOOSE i \in 1..Len(kvs) :
            /\ IsDangerousKey(kvs[i][1])
            /\ \A j \in 1..(i - 1) : ~IsDangerousKey(kvs[j][1])
    ELSE 0

\* the loop over the entries left out: the map is returned as built so far
SanitizeFieldsSkipped(kvs, depth, acc) == Ok(JObj(acc))

\* A sanitizer that passes arrays through without visiting their elements.
SanitizeItemsUnvisited(xs, depth, acc) == Ok(JArr(xs))

RECURSIVE sanitize_recursive(_, _), SanitizeFields(_, _, _), SanitizeItems(_, _, _)

\* for (key, val) in map { sanitized.insert(key, sanitize_recursive(val, depth + 1)?) }
\* `acc` is the map built so far; the first failing child ends the loop.
SanitizeFields(kvs, depth, acc) ==
    IF kvs = <<>> THEN Ok(JObj(acc))
    ELSE LET r == sanitize_recursive(Head(kvs)[2], depth + 1)
         IN  IF r.ok
             THEN SanitizeFields(Tail(kvs), depth, MapInsert(acc, Head(kvs)[1], r.val))
             ELSE r

\* arr.into_iter().map(|v| sanitize_recursive(v, depth + 1)).collect::<Result<Vec<_>>>()
SanitizeItems(xs, depth, acc) ==
    IF xs = <<>> THEN Ok(JArr(acc))
    ELSE LET r == sanitize_recursive(Head(xs), depth + 1)
         IN  IF r.ok
             THEN SanitizeItems(Tail(xs), depth, Append(acc, r.val))
             ELSE r

sanitize_recursive(value, depth) ==
    IF DepthExceeded(depth) THEN TooDeepError
    ELSE CASE value.kind = "obj" ->
                LET bad == FirstDangerous(value.fields)
                IN  IF bad # 0 THEN PollutionError(value.fields[bad][1])
                    ELSE SanitizeFields(value.fields, depth, <<>>)
           [] value.kind = "arr" -> SanitizeItems(value.items, depth, <<>>)
           [] OTHER -> Ok(value)

\* the props taken as they are, the sanitizer not run
sanitize_props_skipped(value) == Ok(value)

sanitize_props(value) == sanitize_recursive(value, 0)

-----------------------------------------------------------------------------
(* Inputs of the sanitizer: a core value wrapped in `inner` containers,    *)
(* then in one special container, then in `outer` containers.              *)

MaxExtra == 2      \* how far past MAX_DEPTH the generated nesting goes
MaxNear  == 1      \* nesting allowed on the short side of the special container

Leaf == JPrim("1")

Cores == { Leaf, JPrim("\"constructor\""), JArr(<<>>), JObj(<<>>) }

Specials == { "none", "proto", "ctor", "prototype", "arr2", "obj2",
              "protoFirst", "protoLast", "arrProtoFirst", "arrProtoLast" }

Styles == { "arr", "obj", "mix" }

Wrap(sp, v) ==
    CASE sp = "none"          -> v
      [] sp = "proto"         -> JObj(<< <<"__proto__", v>> >>)
      [] sp = "ctor"          -> JObj(<< <<"constructor", v>> >>)
      [] sp = "prototype"     -> JObj(<< <<"prototype", v>> >>)
      [] sp = "arr2"          -> JArr(<<Leaf, v>>)
      [] sp = "obj2"          -> JObj(<< <<"a", Leaf>>, <<"z", v>> >>)
      [] sp = "protoFirst"    -> JObj(<< <<"__proto__", Leaf>>, <<"z", v>> >>)
      [] sp = "protoLast"     -> JObj(<< <<"a", v>>, <<"__proto__", Leaf>> >>)
      [] sp = "arrProtoFirst" -> JArr(<< JObj(<< <<"__proto__", Leaf>> >>), v >>)
      [] sp = "arrProtoLast"  -> JArr(<< v, JObj(<< <<"__proto__", Leaf>> >>) >>)

RECURSIVE Nest(_, _, _)
Nest(n, style, v) ==
    IF n = 0 THEN v
    ELSE LET inner == Nest(n - 1, style, v)
         IN  IF style = "arr" \/ (style = "mix" /\ n % 2 = 0)
             THEN JArr(<<inner>>)
             ELSE JObj(<< <<"nested", inner>> >>)

SanInputs ==
    { Nest(o, st, Wrap(sp, Nest(i, st, c))) :
        <<o, i, st, sp, c>> \in
            { t \in (0..(MAX_DEPTH + MaxExtra)) \X (0..(MAX_DEPTH + MaxExtra))
                     \X Styles \X Specials \X Cores :
                /\ t[1] <= MaxNear \/ t[2] <= MaxNear
                /\ t[1] + t[2] <= MAX_DEPTH + MaxExtra } }

-----------------------------------------------------------------------------
(* The filesystem the loader runs on.  A path is the sequence of its       *)
(* components below the root; a node is a directory, a regular file or a   *)
(* symbolic link with its target.                                          *)

SymlinkFuel == 8   \* symbolic links followed in one lookup before ELOOP

FsDir(p)      == [path |-> p, kind |-> "dir",  target |-> ""]
FsFile(p)     == [path |-> p, kind |-> "file", target |-> ""]
FsLink(p, t)  == [path |-> p, kind |-> "link", target |-> t]

FsNodes ==
    { FsDir(<<"srv">>),
      FsDir(<<"srv", "chunks">>),
      FsFile(<<"srv", "chunks", "entry.js">>),
      FsFile(<<"srv", "chunks", "chunk.mjs">>),
      FsFile(<<"srv", "chunks", "data.json">>),
      FsFile(<<"srv", "chunks", "README">>),
      FsFile(<<"srv", "chunks", ".js">>),
      FsFile(<<"srv", "chunks", "plain.js">>),
      FsFile(<<"srv", "chunks", "counter.js">>),
      FsFile(<<"srv", "chunks", "logger.js">>),
      FsFile(<<"srv", "chunks", "throwBoom.js">>),
      FsFile(<<"srv", "chunks", "throwTerminated.js">>),
      FsFile(<<"srv", "chunks", "throwTimedOut.js">>),
      FsFile(<<"srv", "chunks", "pending.js">>),
      FsFile(<<"srv", "chunks", "number.js">>),
      FsFile(<<"srv", "chunks", "loop.js">>),
      FsFile(<<"srv", "chunks", "hog.js">>),
      FsFile(<<"srv", "chunks", "forward.js">>),
      FsFile(<<"srv", "chunks", "importer.js">>),
      FsFile(<<"srv", "chunks", "unhandled.js">>),
      FsDir(<<"srv", "chunks", "sub">>),
      FsFile(<<"srv", "chunks", "sub", "mod.js">>),
      FsDir(<<"srv", "chunks", "%2e%2e">>),
      FsFile(<<"srv", "chunks", "%2e%2e", "pct.js">>),
      FsLink(<<"srv", "chunks", "escape.js">>, "/etc/secret.js"),
      FsLink(<<"srv", "chunks", "alias.js">>, "data.json"),
      FsLink(<<"srv", "chunks", "good.js">>, "sub/mod.js"),
      FsLink(<<"srv", "chunks", "cycle.js">>, "cycle.js"),
      FsLink(<<"srv", "chunks", "out">>, "../chunks-evil"),
      FsDir(<<"srv", "chunks-evil">>),
      FsFile(<<"srv", "chunks-evil", "x.js">>),
      FsLink(<<"app">>, "/srv/chunks"),
      FsDir(<<"etc">>),
      FsFile(<<"etc", "secret.js">>),
      FsFile(<<"etc", "passwd">>) }

FsHas(p) == \E n \in FsNodes : n.path = p
FsNode(p) == CHOOSE n \in FsNodes : n.path = p

\* Path::is_absolute
IsAbsolute(pathStr) == StartsWith(pathStr, "/")

\* Path::components below the root: empty and "." components are dropped, ".." kept
PathComponents(pathStr) ==
    SelectSeq(SplitOn(pathStr, "/"), LAMBDA c : c # "" /\ c # ".")

\* Path::display of an absolute path
PathString(comps) == IF comps = <<>> THEN "/" ELSE JoinWith(comps, "/")

\* Path::join: an absolute right-hand side replaces the left-hand side
PathJoin(base, rel) ==
    IF IsAbsolute(rel) THEN rel
    ELSE IF base = "/" THEN "/" \o rel
    ELSE base \o "/" \o rel

RECURSIVE Walk(_, _, _)
\* The kernel's path walk: `cur` is the canonical directory reached so far,
\* `rest` the components still to follow.
Walk(cur, rest, fuel) ==
    IF rest = <<>> THEN Ok(cur)
    ELSE LET c == Head(rest)
             next == Append(cur, c)
         IN  IF c = ".."
             THEN Walk(IF cur = <<>> THEN cur ELSE SubSeq(cur, 1, Len(cur) - 1),
                       Tail(rest), fuel)
             ELSE IF ~FsHas(next) THEN Err("No such file or directory (os error 2)")
             ELSE CASE FsNode(next).kind = "dir" -> Walk(next, Tail(rest), fuel)
                    [] FsNode(next).kind = "file" ->
                          IF Tail(rest) = <<>> THEN Ok(next)
                          ELSE Err("Not a directory (os error 20)")
                    [] FsNode(next).kind = "link" ->
                          IF fuel = 0
                          THEN Err("Too many levels of symbolic links (os error 40)")
                          ELSE Walk(IF IsAbsolute(FsNode(next).target) THEN <<>> ELSE cur,
                                    PathComponents(FsNode(next).target) \o Tail(rest),
                                    fuel - 1)

\* Path::canonicalize of an absolute path: symlinks followed, ".." collapsed
Canonicalize(pathStr) == Walk(<<>>, PathComponents(pathStr), SymlinkFuel)

\* Path::is_dir
IsDir(comps) == FsHas(comps) /\ FsNode(comps).kind = "dir"

\* Path::starts_with: whole components are compared
PathStartsWith(p, base) ==
    Len(p) >= Len(base) /\ SubSeq(p, 1, Len(base)) = base

\* std::fs::read_to_string: the file the kernel opens for the path; its
\* content is named by its canonical path.
ReadToString(pathStr) ==
    LET c == Canonicalize(pathStr)
    IN  IF ~c.ok THEN c
        ELSE IF FsNode(c.val).kind # "file" THEN Err("Is a directory (os error 21)")
        ELSE Ok(PathString(c.val))

\* Option<&str>
None    == [some |-> FALSE, v |-> ""]
Some(x) == [some |-> TRUE,  v |-> x]

\* Path::extension: the part of the file name after its last dot; none for a
\* path ending in "..", a name without dot and a name whose only dot leads it
PathExtension(pathStr) ==
    LET comps == PathComponents(pathStr)
    IN  IF comps = <<>> THEN None
        ELSE LET name == comps[Len(comps)]
                 i == LastIndexOf(name, ".")
             IN  IF name = ".." \/ i <= 1 THEN None
                 ELSE Some(SubSeq(name, i + 1, Len(name)))

-----------------------------------------------------------------------------
(* url::Url, as far as the loader uses it.                                 *)

Url(scheme, host, segs, opaque) ==
    [scheme |-> scheme, host |-> host, segs |-> segs, opaque |-> opaque]

\* percent-encoded forms of "." and ".." that the URL parser treats as dot segments
IsSingleDot(seg) == seg \in {".", "%2e", "%2E"}
IsDoubleDot(seg) ==
    seg \in {"..", ".%2e", ".%2E", "%2e.", "%2E.", "%2e%2e", "%2E%2E", "%2e%2E", "%2E%2e"}

RECURSIVE NormalizeSegments(_, _)
\* the URL parser's path state: "." is dropped, ".." removes the segment
\* before it (never the root); either one in last place leaves an empty segment
NormalizeSegments(segs, acc) ==
    IF segs = <<>> THEN acc
    ELSE LET seg == Head(segs)
             last == Tail(segs) = <<>>
             popped == IF acc = <<>> THEN acc ELSE SubSeq(acc, 1, Len(acc) - 1)
         IN  IF IsDoubleDot(seg)
             THEN NormalizeSegments(Tail(segs), IF last THEN Append(popped, "") ELSE popped)
             ELSE IF IsSingleDot(seg)
             THEN NormalizeSegments(Tail(segs), IF last THEN Append(acc, "") ELSE acc)
             ELSE NormalizeSegments(Tail(segs), Append(acc, seg))

\* the segments of an absolute URL path "/a/b"
UrlPathSegments(pathStr) ==
    NormalizeSegments(SplitOn(SubSeq(pathStr, 2, Len(pathStr)), "/"), <<>>)

\* Url::parse / ModuleSpecifier::parse
UrlParse(s) ==
    LET i == IndexOf(s, ":")
        scheme == SubSeq(s, 1, i - 1)
        rest == SubSeq(s, i + 1, Len(s))
    IN  IF i <= 1 \/ Contains(scheme, "/") \/ Contains(scheme, "<") \/ Contains(scheme, " ")
        THEN Err("relative URL without a base")
        ELSE IF StartsWith(rest, "//")
        THEN LET after == SubSeq(rest, 3, Len(rest))
                 j == IndexOf(after, "/")
                 host == IF j = 0 THEN after ELSE SubSeq(after, 1, j - 1)
                 path == IF j = 0 THEN "/" ELSE SubSeq(after, j, Len(after))
             IN  IF host = "" /\ scheme # "file" THEN Err("empty host")
                 ELSE Ok(Url(scheme, host, UrlPathSegments(path), FALSE))
        ELSE IF scheme = "file"
        THEN Ok(Url(scheme, "",
                    UrlPathSegments(IF StartsWith(rest, "/") THEN rest ELSE "/" \o rest),
                    FALSE))
        ELSE Ok(Url(scheme, "", <<rest>>, TRUE))

\* Url::join of a specifier that starts with "./" or "../"
UrlJoin(base, rel) ==
    IF base.opaque THEN Err("relative URL with a cannot-be-a-base base")
    ELSE Ok(Url(base.scheme, base.host,
                NormalizeSegments(
                    (IF base.segs = <<>> THEN <<>>
                     ELSE SubSeq(base.segs, 1, Len(base.segs) - 1)) \o SplitOn(rel, "/"),
                    <<>>),
                FALSE))

\* Url::as_str
UrlString(u) ==
    IF u.opaque THEN u.scheme \o ":" \o u.segs[1]
    ELSE u.scheme \o "://" \o u.host
         \o (IF u.segs = <<>> THEN "/" ELSE JoinWith(u.segs, "/"))

PercentTriple(t) ==
    CASE t \in {"%2e", "%2E"} -> "."
      [] t \in {"%2f", "%2F"} -> "/"
      [] t = "%25"            -> "%"
      [] OTHER                -> ""

RECURSIVE PercentDecode(_)
\* percent_decode of a path segment (the escapes "%2e", "%2f" and "%25")
PercentDecode(s) ==
    IF Len(s) = 0 THEN ""
    ELSE IF Len(s) >= 3 /\ PercentTriple(SubSeq(s, 1, 3)) # ""
    THEN PercentTriple(SubSeq(s, 1, 3)) \o PercentDecode(SubSeq(s, 4, Len(s)))
    ELSE SubSeq(s, 1, 1) \o PercentDecode(SubSeq(s, 2, Len(s)))

RECURSIVE PercentEncode(_)
\* percent_encode of a path component ("%" is written "%25")
PercentEncode(s) ==
    IF Len(s) = 0 THEN ""
    ELSE (IF SubSeq(s, 1, 1) = "%" THEN "%25" ELSE SubSeq(s, 1, 1))
         \o PercentEncode(SubSeq(s, 2, Len(s)))

\* Url::to_file_path: only an empty or "localhost" host has a path; the
\* segments are percent-decoded and joined with "/"
to_file_path(u) ==
    IF u.opaque \/ u.host \notin {"", "localhost"} THEN Err("")
    ELSE Ok(IF u.segs = <<>> THEN "/"
            ELSE JoinWith([i \in 1..Len(u.segs) |-> PercentDecode(u.segs[i])], "/"))

\* Url::from_file_path: the path must be absolute; each component becomes
\* one percent-encoded segment
from_file_path(pathStr) ==
    IF ~IsAbsolute(pathStr) THEN Err("")
    ELSE LET comps == PathComponents(pathStr)
         IN  Ok(Url("file", "", [i \in 1..Len(comps) |-> PercentEncode(comps[i])], FALSE))

-----------------------------------------------------------------------------
(* src/src/loader.rs                                                       *)

\* SandboxedLoader::new: the canonical allowed_dir, or the construction error
SandboxedLoader_new(chunks_dir) ==
    LET canonical == Canonicalize(chunks_dir)
    IN  IF ~canonical.ok
        THEN Err("Failed to canonicalize allowed_dir: " \o canonical.err)
        ELSE IF ~IsDir(canonical.val) THEN Err("allowed_dir must be a directory")
        ELSE Ok(canonical.val)

\* A containment check on the path as written, without canonicalization.
is_path_allowed_lexical(allowed_dir, path) ==
    PathStartsWith(PathComponents(path), allowed_dir)

\* SandboxedLoader::is_path_allowed
is_path_allowed(allowed_dir, path) ==
    LET canonical == Canonicalize(path)
    IN  IF canonical.ok THEN PathStartsWith(canonical.val, allowed_dir) ELSE FALSE

\* SandboxedLoader::is_extension_allowed
is_extension_allowed(path) ==
    PathExtension(path) \in {Some("js"), Some("mjs")}

\* if resolved.scheme() != "file", with the test left out
SchemeRejectedNever(resolved) == FALSE

\* if resolved.scheme() != "file"
SchemeRejected(resolved) == resolved.scheme # "file"

\* the first check of resolve: remote and inline sources
IsRemoteSpecifier(specifier) ==
    \/ StartsWith(specifier, "http://")
    \/ StartsWith(specifier, "https://")
    \/ StartsWith(specifier, "data:")
    \/ StartsWith(specifier, "blob:")

\* the specifier turned into a URL, by its shape
ResolveShape(allowed_dir, specifier, referrer) ==
    IF StartsWith(specifier, "./") \/ StartsWith(specifier, "../")
    THEN LET referrer_url == UrlParse(referrer)
         IN  IF ~referrer_url.ok
             THEN Err("Invalid referrer '" \o referrer \o "': " \o referrer_url.err)
             ELSE LET joined == UrlJoin(referrer_url.val, specifier)
                  IN  IF ~joined.ok
                      THEN Err("Failed to resolve '" \o specifier \o "': " \o joined.err)
                      ELSE joined
    ELSE IF StartsWith(specifier, "file://")
    THEN LET parsed == UrlParse(specifier)
         IN  IF ~parsed.ok
             THEN Err("Invalid file URL '" \o specifier \o "': " \o parsed.err)
             ELSE parsed
    ELSE IF StartsWith(specifier, "/")
    THEN LET u == from_file_path(specifier)
         IN  IF ~u.ok THEN Err("Invalid absolute path: " \o specifier) ELSE u
    ELSE LET u == from_file_path(PathJoin(PathString(allowed_dir), specifier))
         IN  IF ~u.ok THEN Err("Invalid bare specifier: " \o specifier) ELSE u

\* SandboxedLoader::resolve
resolve(allowed_dir, specifier, referrer) ==
    IF IsRemoteSpecifier(specifier)
    THEN Err("Remote imports are forbidden: " \o specifier)
    ELSE LET resolved == ResolveShape(allowed_dir, specifier, referrer)
         IN  IF ~resolved.ok THEN resolved
             ELSE IF SchemeRejected(resolved.val)
             THEN Err("Only file:// URLs allowed, got: " \o resolved.val.scheme)
             ELSE LET path == to_file_path(resolved.val)
                  IN  IF ~path.ok
                      THEN Err("Failed to convert URL to path: " \o UrlString(resolved.val))
                      ELSE IF ~is_path_allowed(allowed_dir, path.val)
                      THEN Err("Access denied: '" \o path.val
                               \o "' is outside the allowed directory")
                      ELSE IF ~is_extension_allowed(path.val)
                      THEN Err("Only .js and .mjs files allowed, got: " \o path.val)
                      ELSE resolved

\* SandboxedLoader::load: the Result, and the file read when one is opened.
\* `code` is the content returned, `read` the canonical path of the file opened.
load(allowed_dir, module_specifier) ==
    LET path == to_file_path(module_specifier)
    IN  IF ~path.ok
        THEN [res |-> Err("Invalid file path: " \o UrlString(module_specifier)),
              read |-> None]
        ELSE IF ~is_path_allowed(allowed_dir, path.val)
        THEN [res |-> Err("Access denied: " \o path.val), read |-> None]
        ELSE IF ~is_extension_allowed(path.val)
        THEN [res |-> Err("Invalid extension: " \o path.val), read |-> None]
        ELSE LET code == ReadToString(path.val)
             IN  IF ~code.ok
                 THEN [res |-> Err("Failed to read '" \o path.val \o "': " \o code.err),
                       read |-> None]
                 ELSE [res |-> code, read |-> Some(code.val)]

-----------------------------------------------------------------------------
(* url::Url, as far as fetch uses it: scheme, host, port and path.  The    *)
(* parser lower-cases scheme and host, drops the userinfo and drops a port *)
(* that is the default of the scheme.                                      *)

SpecialSchemes == {"http", "https", "ws", "wss", "ftp"}

\* the default port of a special scheme
DefaultPort(scheme) ==
    CASE scheme \in {"http", "ws"} -> 80
      [] scheme \in {"https", "wss"} -> 443
      [] scheme = "ftp" -> 21
      [] OTHER -> 0

\* the decimal port numbers of the inputs; -1 for text that is no port number
PortNumber(text) ==
    CASE text = "80" -> 80
      [] text = "443" -> 443
      [] text = "3000" -> 3000
      [] text = "8080" -> 8080
      [] text = "8443" -> 8443
      [] OTHER -> -1

\* a parsed URL; port 0 stands for None (the default port of the scheme)
WebUrl(scheme, host, port, path) ==
    [scheme |-> scheme, host |-> host, port |-> port, path |-> path]

\* "\" read as "/", as the parser does in URLs of special schemes
RECURSIVE SlashesOf(_)
SlashesOf(s) ==
    IF s = "" THEN ""
    ELSE (IF SubSeq(s, 1, 1) = "\\" THEN "/" ELSE SubSeq(s, 1, 1))
         \o SlashesOf(SubSeq(s, 2, Len(s)))

\* the authority "userinfo@host:port" of a special URL, with its path
WebAuthority(scheme, authority, path) ==
    LET hostport == SubSeq(authority, LastIndexOf(authority, "@") + 1, Len(authority))
        colon == IndexOf(hostport, ":")
        host == ToLower(IF colon = 0 THEN hostport ELSE SubSeq(hostport, 1, colon - 1))
        porttext == IF colon = 0 THEN "" ELSE SubSeq(hostport, colon + 1, Len(hostport))
    IN  IF host = "" THEN Err("empty host")
        ELSE IF porttext # "" /\ PortNumber(porttext) < 0 THEN Err("invalid port number")
        ELSE Ok(WebUrl(scheme, host,
                       IF porttext = "" \/ PortNumber(porttext) = DefaultPort(scheme)
                       THEN 0 ELSE PortNumber(porttext),
                       path))

\* the text after "scheme:" of a special URL: slashes, authority, path
WebAfterScheme(scheme, rest) ==
    LET after == IF StartsWith(rest, "//") THEN SubSeq(rest, 3, Len(rest)) ELSE rest
        slash == IndexOf(after, "/")
    IN  WebAuthority(scheme,
                     IF slash = 0 THEN after ELSE SubSeq(after, 1, slash - 1),
                     IF slash = 0 THEN "/" ELSE SubSeq(after, slash, Len(after)))

\* Url::parse
WebUrlParse(s) ==
    LET colon == IndexOf(s, ":")
        scheme == ToLower(SubSeq(s, 1, colon - 1))
    IN  IF colon <= 1 \/ Contains(scheme, "/") THEN Err("relative URL without a base")
        ELSE IF scheme \in SpecialSchemes
        THEN WebAfterScheme(scheme, SlashesOf(SubSeq(s, colon + 1, Len(s))))
        ELSE Ok(WebUrl(scheme, "", 0, SubSeq(s, colon + 1, Len(s))))

\* Url::to_string
WebUrlString(u) ==
    IF u.scheme \in SpecialSchemes
    THEN u.scheme \o "://" \o u.host
         \o (IF u.port = 0 THEN "" ELSE ":" \o ToString(u.port)) \o u.path
    ELSE u.scheme \o ":" \o u.path

\* Url::join
WebUrlJoin(base, location) ==
    LET loc == IF base.scheme \in SpecialSchemes THEN SlashesOf(location) ELSE location
        colon == IndexOf(loc, ":")
        slash == IndexOf(loc, "/")
    IN  IF colon > 1 /\ (slash = 0 \/ colon < slash) THEN WebUrlParse(loc)
        ELSE IF base.scheme \notin SpecialSchemes
        THEN Err("relative URL with a cannot-be-a-base base")
        ELSE IF StartsWith(loc, "//") THEN WebUrlParse(base.scheme \o ":" \o loc)
        ELSE IF StartsWith(loc, "/") THEN Ok([base EXCEPT !.path = loc])
        ELSE Ok([base EXCEPT !.path =
                    SubSeq(base.path, 1, LastIndexOf(base.path, "/")) \o loc])

\* Url::origin: a tuple origin for the special schemes, an opaque origin
\* (a new one at every call) otherwise
Origin(u) ==
    IF u.scheme \in SpecialSchemes
    THEN [opaque |-> FALSE, scheme |-> u.scheme, host |-> u.host,
          port |-> IF u.port = 0 THEN DefaultPort(u.scheme) ELSE u.port]
    ELSE [opaque |-> TRUE, scheme |-> "", host |-> "", port |-> 0]

\* Origin == Origin: an opaque origin equals no origin made by another call
OriginEq(a, b) == ~a.opaque /\ ~b.opaque /\ a = b

\* Origin::ascii_serialization
ascii_serialization(o) ==
    IF o.opaque THEN "null"
    ELSE o.scheme \o "://" \o o.host
         \o (IF o.port = DefaultPort(o.scheme) THEN "" ELSE ":" \o ToString(o.port))

-----------------------------------------------------------------------------
(* src/src/fetch.rs                                                        *)

\* an allowlist test that accepts every origin an entry is a prefix of
is_origin_allowed_prefix(allowed_origins, url) ==
    \E i \in 1..Len(allowed_origins) :
        StartsWith(ascii_serialization(Origin(url)), allowed_origins[i])

\* FetchConfig::is_origin_allowed
is_origin_allowed(allowed_origins, url) ==
    IF allowed_origins = << >> THEN FALSE
    ELSE \E i \in 1..Len(allowed_origins) :
            ascii_serialization(Origin(url)) = allowed_origins[i]

\* request.method.as_deref().unwrap_or("GET").to_uppercase(), matched
MethodOf(method) ==
    IF ToUpper(method) \in {"GET", "POST", "PUT", "DELETE", "PATCH", "HEAD", "OPTIONS"}
    THEN Ok(ToUpper(method))
    ELSE Err("Unsupported HTTP method: " \o ToUpper(method))

\* Vec<String> as {:?} prints it
RECURSIVE DebugList(_)
DebugList(xs) ==
    IF xs = << >> THEN ""
    ELSE "\"" \o Head(xs) \o "\"" \o (IF Tail(xs) = << >> THEN "" ELSE ", ")
         \o DebugList(Tail(xs))

\* do_fetch up to the request: the URL is parsed and checked, the method matched
FetchPrepare(allowed_origins, request_url, method) ==
    LET url == WebUrlParse(request_url)
    IN  IF ~url.ok THEN Err("Invalid URL '" \o request_url \o "': " \o url.err)
        ELSE IF ~is_origin_allowed(allowed_origins, url.val)
        THEN Err("Fetch blocked: origin '" \o ascii_serialization(Origin(url.val))
                 \o "' is not in the allowlist. Allowed: ["
                 \o DebugList(allowed_origins) \o "]")
        ELSE IF ~MethodOf(method).ok THEN Err(MethodOf(method).err)
        ELSE url

\* the two tests of a redirect, with the comparison of origins left out
RedirectCheckAllowlistOnly(allowed_origins, url, redirect_url) ==
    IF ~is_origin_allowed(allowed_origins, redirect_url)
    THEN Err("Fetch blocked: redirect origin '"
             \o ascii_serialization(Origin(redirect_url)) \o "' is not in the allowlist")
    ELSE Ok(redirect_url)

\* do_fetch: the two tests a redirect target has to pass
RedirectCheck(allowed_origins, url, redirect_url) ==
    IF ~OriginEq(Origin(redirect_url), Origin(url))
    THEN Err("Fetch blocked: redirect to different origin '"
             \o ascii_serialization(Origin(redirect_url)) \o "' (original: '"
             \o ascii_serialization(Origin(url)) \o "')")
    ELSE IF ~is_origin_allowed(allowed_origins, redirect_url)
    THEN Err("Fetch blocked: redirect origin '"
             \o ascii_serialization(Origin(redirect_url)) \o "' is not in the allowlist")
    ELSE Ok(redirect_url)

\* a follow-up request that repeats the method and the body of the request
RedirectRequestRepeated(request, redirect_url) ==
    [request EXCEPT !.url = WebUrlString(redirect_url)]

\* do_fetch: the FetchRequest of the recursive call
RedirectRequest(request, redirect_url) ==
    [ url     |-> WebUrlString(redirect_url),
      method  |-> Some("GET"),
      headers |-> request.headers,
      body    |-> FALSE ]

\* StatusCode::is_redirection
is_redirection(status) == status >= 300 /\ status < 400

-----------------------------------------------------------------------------
(* Inputs of the loader.                                                   *)

ChunkDirs == { "/srv/chunks", "/app" }

Specifiers ==
    { "./chunk.mjs", "./data.json", "./README", "./.js", "./sub/mod.js", "../entry.js",
      "./missing.js", "./sub", "../../../etc/passwd", "../../etc/secret.js",
      "./escape.js", "./alias.js", "./good.js", "./cycle.js", "./out/x.js",
      "../chunks-evil/x.js", "./%2e%2e/%2e%2e/etc/secret.js",
      "file:///srv/chunks/entry.js", "file:///srv/chunks/data.json",
      "file:///etc/secret.js", "file://evil.com/srv/chunks/entry.js",
      "file://localhost/srv/chunks/entry.js",
      "file:///srv/chunks/%2e%2e/%2e%2e/etc/secret.js",
      "file:///srv/chunks/..%2f..%2fetc%2fsecret.js",
      "file:///srv/chunks-evil/x.js",
      "/etc/secret.js", "/srv/chunks/entry.js", "/srv/chunks/../chunks-evil/x.js",
      "/app/sub/mod.js",
      "chunk.mjs", "sub/../../chunks-evil/x.js", "README", "missing.js", "alias.js",
      "%2e%2e/pct.js", "..%2fchunks-evil%2fx.js",
      "https://evil.com/payload.js", "http://evil.com/payload.js",
      "data:text/javascript,export default 1", "blob:6f1c-payload.js",
      "HTTPS://evil.com/payload.js", "Data:text/javascript,export default 1" }

Referrers ==
    { "file:///srv/chunks/entry.js", "file:///srv/chunks/sub/mod.js",
      "https://cdn.example.com/lib/a.js", "http://localhost/srv/chunks/entry.js",
      "ext:ssr_runtime/bootstrap.js", "<ssr>" }

\* the referrer of the render dispatcher's import()
DispatcherReferrer == "ext:ssr_runtime/bootstrap.js"

\* entry lines of server-mode requests (main.rs joins them to chunks_dir)
EntryLines ==
    { "entry.js", "sub/mod.js", "data.json", "missing.js", "escape.js", "alias.js",
      "out/x.js", "../chunks-evil/x.js", "../../etc/secret.js", "/etc/secret.js" }

-----------------------------------------------------------------------------
(* String helpers of the server loop.                                      *)

\* char::is_whitespace, for the characters the inputs contain
IsWhitespace(c) == c \in {" ", "\t", "\n", "\r"}

\* a trim that leaves the text as it is
TrimNothing(s) == s

RECURSIVE TrimStart(_)
\* str::trim_start
TrimStart(s) ==
    IF s # "" /\ IsWhitespace(SubSeq(s, 1, 1)) THEN TrimStart(SubSeq(s, 2, Len(s))) ELSE s

RECURSIVE TrimEnd(_)
\* str::trim_end
TrimEnd(s) ==
    IF s # "" /\ IsWhitespace(SubSeq(s, Len(s), Len(s)))
    THEN TrimEnd(SubSeq(s, 1, Len(s) - 1))
    ELSE s

\* str::trim
Trim(s) == TrimEnd(TrimStart(s))

\* The number of bytes of one character in UTF-8.  TLC keeps 7-bit
\* characters only: in the texts of this model "^" stands for a character
\* of two bytes (U+0080 to U+07FF) and "~" for one of three bytes (U+0800 to
\* U+FFFF); every other character is ASCII and takes one byte.
Utf8Width(c) ==
    CASE c = "^" -> 2
      [] c = "~" -> 3
      [] OTHER -> 1

RECURSIVE Utf8Len(_)
\* the number of bytes of a string in UTF-8
Utf8Len(s) ==
    IF s = "" THEN 0 ELSE Utf8Width(SubSeq(s, 1, 1)) + Utf8Len(SubSeq(s, 2, Len(s)))

\* body.chars().count(): the length in characters
str_chars_count(body) == Len(body)

\* body.len(): the length of a Rust string is its length in bytes
str_len(body) == Utf8Len(body)

RECURSIVE Repeat(_, _)
\* str::repeat
Repeat(s, n) == IF n = 0 THEN "" ELSE s \o Repeat(s, n - 1)

\* Option<u64>, Option<usize>
NoneN == [some |-> FALSE, v |-> 0]

-----------------------------------------------------------------------------
(* The lines a controller sends.  read_line keeps the line terminator.     *)

ManyLevels == MAX_DEPTH + 1

\* a props line nested one level deeper than the sanitizer allows
DeepLine == Repeat("[", ManyLevels) \o "1" \o Repeat("]", ManyLevels)

EntryInputs ==
    { "entry.js\n", "  plain.js \r\n", "counter.js\n", "logger.js\n", "throwBoom.js\n",
      "throwTerminated.js\n", "throwTimedOut.js\n", "pending.js\n", "number.js\n",
      "loop.js\n", "hog.js\n", "forward.js\n", "importer.js\n", "unhandled.js\n", "data.json\n", "missing.js\n",
      "../../etc/secret.js\n" }

PropsInputs ==
    { "\n", "{\"title\":\"h^\"}\n", "{bad\n", "{\"a\":{\"__proto__\":1}}\n",
      DeepLine \o "\n" }

\* a byte that occurs in no UTF-8 text (0xFF); "|" stands for it
InvalidByte == "|"

\* lines a controller sends that are not UTF-8
InvalidEntryInputs == { "entry" \o InvalidByte \o ".js\n" }

InvalidPropsInputs == { "{\"title\":\"" \o InvalidByte \o "\"}\n" }

\* BufRead::read_line: the line with its terminator, or the error for bytes
\* that are not UTF-8
read_line(bytes) ==
    IF Contains(bytes, InvalidByte) THEN Err("stream did not contain valid UTF-8")
    ELSE Ok(bytes)

\* serde_json::from_str on the props lines above
from_str(text) ==
    CASE text = "{\"title\":\"h^\"}" -> Ok(JObj(<< <<"title", JPrim("\"h^\"")>> >>))
      [] text = "{\"a\":{\"__proto__\":1}}" ->
            Ok(JObj(<< <<"a", JObj(<< <<"__proto__", JPrim("1")>> >>)>> >>))
      [] text = DeepLine -> Ok(Nest(ManyLevels, "arr", JPrim("1")))
      [] text = "{bad" -> Err("key must be a string at line 1 column 2")
      [] OTHER -> Err("expected value at line 1 column 1")

\* serde_json::json!({})
EmptyObject == JObj(<<>>)

-----------------------------------------------------------------------------
(* src/src/main.rs: configuration                                          *)

DEFAULT_TIMEOUT_MS == 5000
DEFAULT_HEAP_MB == 64

\* values of --timeout: absent, 0 and a number of milliseconds
TimeoutArgs == { NoneN, Some(0), Some(100) }

\* values of --max-heap-size, in bytes after parse_heap_size: absent and 0
HeapArgs == { NoneN, Some(0) }

\* main: and_then(|t| if t == 0 { None } else { Some(t) })
ZeroToNone(opt) == IF opt.some /\ opt.v = 0 THEN NoneN ELSE opt

\* Option::or
OptionOr(opt, other) == IF opt.some THEN opt ELSE other

\* run_server: the SandboxConfig built from the arguments main passes
ServerConfig(chunks_dir, max_heap_size, timeout_ms, allowed_origins) ==
    [ chunks_dir      |-> chunks_dir,
      max_heap_size   |-> OptionOr(max_heap_size, Some(DEFAULT_HEAP_MB * 1024 * 1024)),
      timeout_ms      |-> OptionOr(timeout_ms, Some(DEFAULT_TIMEOUT_MS)),
      allowed_origins |-> allowed_origins ]

\* the configurations main can start the server with
ServerConfigs ==
    { ServerConfig("/srv/chunks", ZeroToNone(h), ZeroToNone(t), <<"https://api.example.com">>) :
        h \in HeapArgs, t \in TimeoutArgs }

\* run_single_shot: the SandboxConfig built from the arguments main passes
SingleShotConfig(chunks_dir, max_heap_size, timeout_ms, allowed_origins) ==
    [ chunks_dir      |-> chunks_dir,
      max_heap_size   |-> OptionOr(max_heap_size, Some(DEFAULT_HEAP_MB * 1024 * 1024)),
      timeout_ms      |-> OptionOr(timeout_ms, Some(DEFAULT_TIMEOUT_MS)),
      allowed_origins |-> allowed_origins ]

RECURSIVE ParseDigits(_, _)
\* str::parse::<u64>, digit by digit; -1 for text that is no number
ParseDigits(text, acc) ==
    IF text = "" THEN acc
    ELSE IF IndexOf("0123456789", SubSeq(text, 1, 1)) = 0 THEN -1
    ELSE ParseDigits(SubSeq(text, 2, Len(text)),
                     10 * acc + IndexOf("0123456789", SubSeq(text, 1, 1)) - 1)

\* str::parse::<u64> of an option's value
ParseNumber(text) == IF text = "" THEN -1 ELSE ParseDigits(text, 0)

\* parse_heap_size: the value after --max-heap-size, in bytes
parse_heap_size(arg) ==
    IF arg.some /\ ParseNumber(arg.v) >= 0
    THEN Some(IF ParseNumber(arg.v) = 0 THEN 0 ELSE ParseNumber(arg.v) * 1024 * 1024)
    ELSE NoneN

\* parse_timeout: the value after --timeout, in milliseconds
parse_timeout(arg) ==
    IF arg.some /\ ParseNumber(arg.v) >= 0 THEN Some(ParseNumber(arg.v)) ELSE NoneN

-----------------------------------------------------------------------------
(* src/src/runtime.rs: the isolate                                         *)

\* ConsoleOutput::default()
ConsoleOutputDefault == [logs |-> <<>>, warns |-> <<>>, errors |-> <<>>]

\* create_runtime: a new isolate.  `cache` is the dispatcher's render-module
\* cache, `hits` the module-level state of the chunks evaluated in it, and
\* `terminating` the engine's pending terminate_execution request.
create_runtime(cfg, id) ==
    [ id            |-> id,
      allowed_dir   |-> SandboxedLoader_new(cfg.chunks_dir).val,
      heap_limit    |-> cfg.max_heap_size,
      fetch_config  |-> cfg.allowed_origins,
      console       |-> ConsoleOutputDefault,
      cache         |-> {},
      hits          |-> 0,
      terminating   |-> FALSE ]

\* op_console_log, op_console_warn, op_console_error
ConsolePush(console, method, msg) ==
    CASE method = "log"   -> [console EXCEPT !.logs = Append(@, msg)]
      [] method = "warn"  -> [console EXCEPT !.warns = Append(@, msg)]
      [] method = "error" -> [console EXCEPT !.errors = Append(@, msg)]

RECURSIVE ConsolePushAll(_, _)
ConsolePushAll(console, emits) ==
    IF emits = <<>> THEN console
    ELSE ConsolePushAll(ConsolePush(console, emits[1][1], emits[1][2]), Tail(emits))

-----------------------------------------------------------------------------
(* The chunks of /srv/chunks and the engine that runs them.                *)

\* what the render call leaves in html_global, or the error the engine returns
Outcome(kind, text) == [kind |-> kind, text |-> text]

\* props[key] as the chunk interpolates it into its HTML
PropText(value, key) ==
    LET found == { i \in 1..Len(value.fields) : value.fields[i][1] = key }
    IN  IF found = {} THEN "undefined"
        ELSE LET t == value.fields[CHOOSE i \in found : TRUE][2].prim
             IN  IF StartsWith(t, "\"") THEN SubSeq(t, 2, Len(t) - 1) ELSE t

\* the static imports of the chunk loaded under a URL
ChunkImports(url) ==
    CASE url = "file:///srv/chunks/entry.js"    -> << "./chunk.mjs" >>
      [] url = "file:///srv/chunks/importer.js" -> << "../../../etc/passwd" >>
      [] OTHER -> << >>

\* the render function of a chunk, called with props in an isolate whose
\* module-level state is `hits`: the console calls it makes, what it
\* returns, and the module-level state it leaves
ChunkRender(url, value, hits) ==
    CASE url = "file:///srv/chunks/entry.js" ->
            [ emits |-> << >>, hits |-> hits,
              outcome |-> Outcome("fulfilled_string",
                                  "<h1>" \o PropText(value, "title") \o "</h1>") ]
      [] url = "file:///srv/chunks/plain.js" ->
            [ emits |-> << >>, hits |-> hits,
              outcome |-> Outcome("string", "<p>caf^ ~5</p>") ]
      [] url = "file:///srv/chunks/counter.js" ->
            [ emits |-> << >>, hits |-> hits + 1,
              outcome |-> Outcome("fulfilled_string",
                                  "<p>" \o ToString(hits + 1) \o "</p>") ]
      [] url = "file:///srv/chunks/logger.js" ->
            [ emits |-> << <<"log", "a">>, <<"warn", "b">>, <<"log", "c">> >>,
              hits |-> hits,
              outcome |-> Outcome("fulfilled_string", "") ]
      [] url = "file:///srv/chunks/throwBoom.js" ->
            [ emits |-> << <<"error", "e">> >>, hits |-> hits,
              outcome |-> Outcome("rejected", "Error: boom") ]
      [] url = "file:///srv/chunks/throwTerminated.js" ->
            [ emits |-> << >>, hits |-> hits,
              outcome |-> Outcome("rejected", "Error: connection terminated") ]
      [] url = "file:///srv/chunks/throwTimedOut.js" ->
            [ emits |-> << >>, hits |-> hits,
              outcome |-> Outcome("rejected", "Error: upstream timed out") ]
      [] url = "file:///srv/chunks/pending.js" ->
            [ emits |-> << >>, hits |-> hits, outcome |-> Outcome("pending", "") ]
      [] url = "file:///srv/chunks/number.js" ->
            [ emits |-> << >>, hits |-> hits, outcome |-> Outcome("fulfilled_other", "") ]
      [] url = "file:///srv/chunks/unhandled.js" ->
            [ emits |-> << >>, hits |-> hits,
              outcome |-> Outcome("loop_error", "Uncaught (in promise) Error: late") ]
      [] url = "file:///srv/chunks/hog.js" ->
            [ emits |-> << >>, hits |-> hits, outcome |-> Outcome("heap_exhausted", "") ]
      [] url = "file:///srv/chunks/forward.js" ->
            [ emits |-> << >>, hits |-> hits, outcome |-> Outcome("awaits_fetch", "") ]
      [] OTHER ->
            [ emits |-> << >>, hits |-> hits, outcome |-> Outcome("never", "") ]

RECURSIVE ImportAll(_, _, _), ImportResolved(_, _, _, _), ImportLoaded(_, _, _, _, _)
\* the engine's module loading: every <<specifier, referrer>> still to
\* import is resolved and loaded through the loader, and the imports of what
\* was loaded are imported in turn
ImportAll(allowed, todo, top) ==
    IF todo = << >> THEN Ok(top)
    ELSE ImportResolved(allowed, todo, top, resolve(allowed, todo[1][1], todo[1][2]))

ImportResolved(allowed, todo, top, resolved) ==
    IF ~resolved.ok THEN Err(resolved.err)
    ELSE ImportLoaded(allowed, todo, top, UrlString(resolved.val),
                      load(allowed, resolved.val).res)

ImportLoaded(allowed, todo, top, url, loaded) ==
    IF ~loaded.ok THEN Err(loaded.err)
    ELSE ImportAll(allowed,
                   Tail(todo) \o [i \in 1..Len(ChunkImports(url)) |->
                                     << ChunkImports(url)[i], url >>],
                   top)

\* import(specifier) in the dispatcher
ImportModule(allowed, specifier) ==
    ImportAll(allowed, << <<specifier, DispatcherReferrer>> >>, specifier)

\* __ssr_internal_render__(specifier, props), first part: the first call for
\* a specifier imports the module and caches its render function
DispatcherImport(rt, specifier, imported) ==
    IF imported.ok THEN [rt EXCEPT !.cache = @ \cup {specifier}] ELSE rt

\* __ssr_internal_render__(specifier, props), second part: the cached render
\* function is called with props
DispatcherCall(rt, call) ==
    [rt EXCEPT !.hits = call.hits, !.console = ConsolePushAll(@, call.emits)]

-----------------------------------------------------------------------------
(* src/src/runtime.rs: execute_ssr                                          *)

\* SsrResult
SsrResult(html, console) == [html |-> html, console |-> console]

\* execute_ssr_inner, from execute_script to the end
InspectOutcome(outcome, console) ==
    CASE outcome.kind \in {"script_error", "loop_error"} -> Err(outcome.text)
      [] outcome.kind \in {"fulfilled_string", "string"} ->
            Ok(SsrResult(outcome.text, console))
      [] outcome.kind = "rejected" -> Err("Render function threw: " \o outcome.text)
      [] outcome.kind = "pending" -> Err("Render function returned unresolved promise")
      [] OTHER -> Err("Render function must return a string")

\* the errors execute_ssr_inner returns when the engine terminated the run
TerminationErrors ==
    { "Uncaught Error: execution terminated",
      "Render function returned unresolved promise" }

\* execute_ssr: what it returns for the result of execute_ssr_inner
MapTermination(inner, timeout_ms) ==
    IF timeout_ms.some /\ ~inner.ok
       /\ ( \/ Contains(inner.err, "terminated")
            \/ Contains(inner.err, "unresolved promise")
            \/ Contains(inner.err, "Uncaught Error: execution terminated") )
    THEN Err("Render timed out after " \o ToString(timeout_ms.v) \o "ms")
    ELSE inner

-----------------------------------------------------------------------------
(* src/src/main.rs: run_server                                             *)

\* write_response with the final flush left out
write_response_unflushed(out, ok, body) ==
    [out EXCEPT !.buf = @ \o "Status:" \o (IF ok THEN "Ok" ELSE "Error") \o "\n"
                             \o "Length:" \o ToString(str_len(body)) \o "\n"
                             \o "\n" \o body]

\* write_response
write_response(out, ok, body) ==
    LET status == IF ok THEN "Ok" ELSE "Error"
        length == str_len(body)
        written == out.buf \o "Status:" \o status \o "\n"
                              \o "Length:" \o ToString(length) \o "\n"
                              \o "\n" \o body
    IN  [buf |-> "", flushed |-> Append(out.flushed, written)]

\* let is_timeout = err_msg.contains("timeout"), the needle misspelt
is_timeout_misspelt(err_msg) == Contains(err_msg, "timeout")

\* let is_timeout = err_msg.contains("timed out")
is_timeout(err_msg) == Contains(err_msg, "timed out")

\* the eprintln! calls of the Ok arm
ConsoleLines(console) ==
    [i \in 1..Len(console.logs) |-> "[LOG] " \o console.logs[i]]
    \o [i \in 1..Len(console.warns) |-> "[WARN] " \o console.warns[i]]
    \o [i \in 1..Len(console.errors) |-> "[ERROR] " \o console.errors[i]]

\* run_server, the Err arm: the isolate is reset in place instead of replaced
RuntimeAfterErrorReset(rt, err_msg, cfg) ==
    IF is_timeout(err_msg)
    THEN [rt EXCEPT !.id = @ + 1, !.console = ConsoleOutputDefault, !.terminating = FALSE]
    ELSE rt

\* run_server, the Err arm: if is_timeout { runtime = create_runtime(&config)? }
RuntimeAfterError(rt, err_msg, cfg) ==
    IF is_timeout(err_msg) THEN create_runtime(cfg, rt.id + 1) ELSE rt

\* the end of the loop body with the console left as the request left it
ResetConsoleSkipped(rt) == rt

\* run_server, the end of the loop body: put(ConsoleOutput::default())
ResetConsole(rt) == [rt EXCEPT !.console = ConsoleOutputDefault]

\* Path::new(chunks_dir).join(entry)
EntryPath(cfg, line) == PathJoin(cfg.chunks_dir, Trim(line))

\* ModuleSpecifier::from_file_path(&entry_path), as the text put into render_code
ModuleSpecifier(entry_path) == UrlString(from_file_path(PathString(entry_path)).val)

-----------------------------------------------------------------------------
(* Specifications.  Each one moves its own variables; the others rest.     *)

SanIdle ==
    /\ sInput = Leaf
    /\ sResult = Err("")
    /\ sPc = "idle"

LoaderIdle ==
    /\ lChunksDir = ""
    /\ lEntry = ""
    /\ lSpecifier = ""
    /\ lReferrer = ""
    /\ lResolved = Err("")
    /\ lLoaded = Err("")
    /\ lReads = {}
    /\ lPc = "idle"

NoAnswer ==
    [any |-> FALSE, terminated |-> FALSE, timed_out |-> FALSE, rejected |-> FALSE, isolate |-> 0]

ServerIdle ==
    /\ config = ServerConfig("", NoneN, NoneN, <<>>)
    /\ runtime = [id |-> 0]
    /\ pc = "idle"
    /\ entry_line = ""
    /\ props_line = ""
    /\ props = EmptyObject
    /\ entry_specifier = ""
    /\ result = Err("")
    /\ timer = "none"
    /\ stdout = [buf |-> "", flushed |-> <<>>]
    /\ stderr = <<>>
    /\ requests = 0
    /\ terminated = FALSE
    /\ answered = NoAnswer
    /\ stdin = << >>

NoneS == [some |-> FALSE, v |-> ""]

NoResponse == [status |-> 0, location |-> NoneS]

FetchIdle ==
    /\ fAllowed = << >>
    /\ fOriginal = ""
    /\ fRequest = [url |-> "", method |-> NoneS, headers |-> NoneS, body |-> FALSE]
    /\ fUrl = WebUrl("", "", 0, "")
    /\ fSent = << >>
    /\ fResponse = NoResponse
    /\ fResult = Err("")
    /\ fPc = "idle"

NotCalled == [called |-> FALSE, timeout_ms |-> NoneN]

MainIdle ==
    /\ mArgs = [heap |-> NoneS, timeout |-> NoneS, origins |-> << >>, positional |-> << >>]
    /\ mOptions = [max_heap_size |-> NoneN, timeout_ms |-> NoneN]
    /\ mConfig = ServerConfig("", NoneN, NoneN, << >>)
    /\ mExec = NotCalled
    /\ mExit = Err("")
    /\ mPc = "idle"

(* The sanitizer *)

SanInit ==
    /\ sInput \in SanInputs
    /\ sResult = Err("")
    /\ sPc = "start"
    /\ LoaderIdle
    /\ ServerIdle
    /\ FetchIdle
    /\ MainIdle

\* sanitize_props(value)
SanitizeCall ==
    /\ sPc = "start"
    /\ sResult' = sanitize_props(sInput)
    /\ sPc' = "done"
    /\ UNCHANGED sInput
    /\ UNCHANGED <<loaderVars, serverVars, fetchVars, mainVars>>

SanNext == SanitizeCall

SpecSanitize == SanInit /\ [][SanNext]_vars

(* The loader *)

\* the loader's allowed_dir, canonicalized at construction
allowed_dir == SandboxedLoader_new(lChunksDir).val

LoaderInit ==
    /\ SanIdle
    /\ ServerIdle
    /\ FetchIdle
    /\ MainIdle
    /\ lChunksDir \in { d \in ChunkDirs : SandboxedLoader_new(d).ok }
    /\ \/ /\ lPc = "entry"
          /\ lEntry \in EntryLines
          /\ lSpecifier = ""
          /\ lReferrer = DispatcherReferrer
       \/ /\ lPc = "start"
          /\ lEntry = ""
          /\ lSpecifier \in Specifiers
          /\ lReferrer \in Referrers
    /\ lResolved = Err("")
    /\ lLoaded = Err("")
    /\ lReads = {}

\* run_server and execute_ssr_inner up to the render call: the entry line is
\* joined to chunks_dir and canonicalized, and its file URL is the specifier
\* the render dispatcher imports.
ExecuteEntry ==
    /\ lPc = "entry"
    /\ LET entry_path == PathJoin(lChunksDir, lEntry)
           canonical == Canonicalize(entry_path)
       IN  IF ~canonical.ok
           THEN /\ lResolved' = Err("Invalid entry point '" \o entry_path
                                    \o "': " \o canonical.err)
                /\ lPc' = "failed"
                /\ UNCHANGED lSpecifier
           ELSE /\ lSpecifier' = UrlString(from_file_path(PathString(canonical.val)).val)
                /\ lPc' = "start"
                /\ UNCHANGED lResolved
    /\ UNCHANGED <<lChunksDir, lEntry, lReferrer, lLoaded, lReads>>
    /\ UNCHANGED <<sanVars, serverVars, fetchVars, mainVars>>

\* the engine resolves an import
Resolve ==
    /\ lPc = "start"
    /\ lResolved' = resolve(allowed_dir, lSpecifier, lReferrer)
    /\ lPc' = "resolved"
    /\ UNCHANGED <<lChunksDir, lEntry, lSpecifier, lReferrer, lLoaded, lReads>>
    /\ UNCHANGED <<sanVars, serverVars, fetchVars, mainVars>>

\* the engine loads the module that resolve returned
Load ==
    /\ lPc = "resolved"
    /\ lResolved.ok
    /\ LET r == load(allowed_dir, lResolved.val)
       IN  /\ lLoaded' = r.res
           /\ lReads' = IF r.read.some THEN lReads \cup {r.read.v} ELSE lReads
    /\ lPc' = "loaded"
    /\ UNCHANGED <<lChunksDir, lEntry, lSpecifier, lReferrer, lResolved>>
    /\ UNCHANGED <<sanVars, serverVars, fetchVars, mainVars>>

\* load called with a URL that did not pass through resolve
LoadUnresolved ==
    /\ lPc = "start"
    /\ UrlParse(lSpecifier).ok
    /\ LET r == load(allowed_dir, UrlParse(lSpecifier).val)
       IN  /\ lLoaded' = r.res
           /\ lReads' = IF r.read.some THEN lReads \cup {r.read.v} ELSE lReads
    /\ lPc' = "direct"
    /\ UNCHANGED <<lChunksDir, lEntry, lSpecifier, lReferrer, lResolved>>
    /\ UNCHANGED <<sanVars, serverVars, fetchVars, mainVars>>

LoaderNext == ExecuteEntry \/ Resolve \/ Load \/ LoadUnresolved

SpecLoader == LoaderInit /\ [][LoaderNext]_vars

(* The server *)

MaxRequests == 3   \* requests a controller sends before closing the stream

\* run_server up to the loop
Init ==
    /\ SanIdle
    /\ LoaderIdle
    /\ FetchIdle
    /\ MainIdle
    /\ config \in ServerConfigs
    /\ runtime = create_runtime(config, 1)
    /\ pc = "read_entry"
    /\ entry_line = ""
    /\ props_line = ""
    /\ props = EmptyObject
    /\ entry_specifier = ""
    /\ result = Err("")
    /\ timer = "none"
    /\ stdout = [buf |-> "", flushed |-> <<>>]
    /\ stderr = << "[ssr-sandbox] Server ready, reading from stdin..." >>
    /\ requests = 0
    /\ terminated = FALSE
    /\ answered = NoAnswer
    /\ stdin = << >>

\* the requests a controller writes before it has the response to the first
AheadRequests == { <<"counter.js\n", "{\"title\":\"h^\"}\n">> }

\* the requests a controller sends: every entry with an empty props line,
\* and entry.js with every props line
Requests ==
    { <<e, "\n">> : e \in EntryInputs } \cup { <<"entry.js\n", p>> : p \in PropsInputs }

\* the requests a controller sends the next one right after
PipelinedRequests ==
    { <<"entry.js\n", p>> : p \in PropsInputs }
    \cup { <<e, "\n">> : e \in {"throwBoom.js\n", "number.js\n", "loop.js\n", "missing.js\n"} }

\* what a controller writes when it has the response it waited for: a request,
\* a request and the next one after it, a request cut short by the end of the
\* stream, the end of the stream, or a request with a line that is not UTF-8
ControllerWrites ==
    Requests
    \cup { r \o a : r \in PipelinedRequests, a \in AheadRequests }
    \cup { <<"entry.js\n", "">> }
    \cup { <<"">> }
    \cup { <<e>> : e \in InvalidEntryInputs }
    \cup { <<"entry.js\n", p>> : p \in InvalidPropsInputs }

\* the number of requests in what a controller writes
RequestsIn(lines) == IF lines = <<"">> THEN 0 ELSE IF Len(lines) > 2 THEN 2 ELSE 1

\* the controller writes to the standard input of the server
ControllerWriteUpTo(max) ==
    /\ pc = "read_entry"
    /\ stdin = << >>
    /\ \E lines \in ControllerWrites :
          /\ requests + RequestsIn(lines) <= max
          /\ stdin' = lines
    /\ UNCHANGED <<config, runtime, pc, entry_line, props_line, props, entry_specifier, result,
                   timer, stdout, stderr, requests, terminated, answered>>
    /\ UNCHANGED <<sanVars, loaderVars, fetchVars, mainVars>>

\* the controller of the server, which sends MaxRequests requests at most
ControllerWrite == ControllerWriteUpTo(MaxRequests)

\* the top of the loop: the locals are made anew and line 1 is read; a line
\* that read_line refuses makes run_server, and main, return the error.  The
\* controller has taken what was written for the request before.
ReadEntry ==
    /\ pc = "read_entry"
    /\ stdin # << >>
    /\ Head(stdin) # ""
    /\ stdin' = Tail(stdin)
    /\ \E line \in { read_line(Head(stdin)) } :
          IF line.ok
          THEN /\ entry_line' = line.val
               /\ stderr' = << >>
               /\ pc' = "read_props"
          ELSE /\ entry_line' = ""
               /\ stderr' = << "Error: " \o line.err >>
               /\ pc' = "failed"
    /\ props_line' = ""
    /\ props' = EmptyObject
    /\ entry_specifier' = ""
    /\ result' = Err("")
    /\ terminated' = FALSE
    /\ requests' = requests + 1
    /\ stdout' = [stdout EXCEPT !.flushed = << >>]
    /\ UNCHANGED <<config, runtime, timer, answered>>
    /\ UNCHANGED <<sanVars, loaderVars, fetchVars, mainVars>>

\* read_line returns 0: the stream is closed and the loop is left
ReadEof ==
    /\ pc = "read_entry"
    /\ stdin # << >>
    /\ Head(stdin) = ""
    /\ stderr' = Append(stderr, "[ssr-sandbox] Server shutting down")
    /\ pc' = "done"
    /\ UNCHANGED <<config, runtime, entry_line, props_line, props, entry_specifier, result, timer, stdout,
                   requests, terminated, answered>>
    /\ UNCHANGED stdin
    /\ UNCHANGED <<sanVars, loaderVars, fetchVars, mainVars>>

\* line 2 is read; at the end of the stream read_line leaves the line empty,
\* and a line that read_line refuses makes run_server return the error
ReadProps ==
    /\ pc = "read_props"
    /\ stdin # << >>
    /\ stdin' = IF Head(stdin) = "" THEN stdin ELSE Tail(stdin)
    /\ \E line \in { read_line(Head(stdin)) } :
          IF line.ok
          THEN /\ props_line' = line.val
               /\ pc' = "parse"
               /\ UNCHANGED stderr
          ELSE /\ props_line' = ""
               /\ stderr' = Append(stderr, "Error: " \o line.err)
               /\ pc' = "failed"
    /\ UNCHANGED <<config, runtime, entry_line, props, entry_specifier, result, timer, stdout,
                   requests, terminated, answered>>
    /\ UNCHANGED <<sanVars, loaderVars, fetchVars, mainVars>>

\* write_response(&mut stdout, false, &error_msg)?; continue;
Reject(error_msg) ==
    /\ result' = Err(error_msg)
    /\ stdout' = write_response(stdout, FALSE, error_msg)
    /\ answered' = [any |-> TRUE, terminated |-> FALSE, timed_out |-> FALSE,
                    rejected |-> TRUE, isolate |-> runtime.id]
    /\ pc' = "read_entry"
    /\ UNCHANGED props

\* the props line is parsed and sanitized
ParseProps ==
    /\ pc = "parse"
    /\ LET props_str == Trim(props_line)
           parsed == IF props_str = "" THEN Ok(EmptyObject) ELSE from_str(props_str)
       IN  IF ~parsed.ok
           THEN Reject("Invalid props JSON: " \o parsed.err)
           ELSE LET clean == sanitize_props(parsed.val)
                IN  IF ~clean.ok
                    THEN Reject(clean.err)
                    ELSE /\ props' = clean.val
                         /\ pc' = "execute"
                         /\ UNCHANGED <<result, stdout, answered>>
    /\ UNCHANGED <<config, runtime, entry_line, props_line, entry_specifier, timer, stderr,
                   requests, terminated>>
    /\ UNCHANGED stdin
    /\ UNCHANGED <<sanVars, loaderVars, fetchVars, mainVars>>

\* execute_ssr spawns the timer task; execute_ssr_inner canonicalizes the
\* entry path and hands render_code to the engine
ExecStart ==
    /\ pc = "execute"
    /\ timer' = IF config.timeout_ms.some THEN "armed" ELSE "none"
    /\ \E canonical \in { Canonicalize(EntryPath(config, entry_line)) } :
          IF ~canonical.ok
          THEN /\ result' = Err("Invalid entry point '" \o EntryPath(config, entry_line)
                                \o "': " \o canonical.err)
               /\ pc' = "returned"
               /\ UNCHANGED entry_specifier
          ELSE /\ entry_specifier' = ModuleSpecifier(canonical.val)
               /\ pc' = "js"
               /\ UNCHANGED result
    /\ UNCHANGED <<config, runtime, entry_line, props_line, props, stdout, stderr,
                   requests, terminated, answered>>
    /\ UNCHANGED stdin
    /\ UNCHANGED <<sanVars, loaderVars, fetchVars, mainVars>>

\* the dispatcher looks the specifier up in its cache and imports the module
\* when it is not there; a failed import rejects the promise of the render call
ImportEntry ==
    /\ pc = "js"
    /\ ~runtime.terminating
    /\ \E imported \in { IF entry_specifier \in runtime.cache THEN Ok(entry_specifier)
                          ELSE ImportModule(runtime.allowed_dir, entry_specifier) } :
          /\ runtime' = DispatcherImport(runtime, entry_specifier, imported)
          /\ IF imported.ok
             THEN /\ pc' = "call"
                  /\ UNCHANGED result
             ELSE /\ pc' = "returned"
                  /\ result' = InspectOutcome(Outcome("rejected", "Error: " \o imported.err),
                                              runtime.console)
    /\ UNCHANGED <<config, entry_line, props_line, props, entry_specifier, timer, stdout,
                   stderr, requests, terminated, answered>>
    /\ UNCHANGED stdin
    /\ UNCHANGED <<sanVars, loaderVars, fetchVars, mainVars>>

\* the render function and the event loop run to the end
RunJs ==
    /\ pc = "call"
    /\ ~runtime.terminating
    /\ \E call \in { ChunkRender(entry_specifier, props, runtime.hits) } :
          /\ call.outcome.kind \notin {"never", "heap_exhausted", "awaits_fetch"}
          /\ runtime' = DispatcherCall(runtime, call)
          /\ result' = InspectOutcome(call.outcome, DispatcherCall(runtime, call).console)
    /\ pc' = "returned"
    /\ UNCHANGED <<config, entry_line, props_line, props, entry_specifier, timer, stdout,
                   stderr, requests, terminated, answered>>
    /\ UNCHANGED stdin
    /\ UNCHANGED <<sanVars, loaderVars, fetchVars, mainVars>>

\* the line the near-heap-limit callback writes; heap_limits(0, max_bytes)
\* makes the initial limit the configured one
NearHeapLimitLine(current) ==
    "[ssr-sandbox] Near heap limit: current=" \o ToString(current \div (1024 * 1024))
    \o "MB, initial=" \o ToString(current \div (1024 * 1024)) \o "MB"

\* what the near-heap-limit callback returns to the engine as the new limit
NearHeapLimitCallback(current) == current

\* the URL forward.js fetches; the server there answers every request with a
\* redirect to the same origin
ForwardUrl == "https://api.example.com/data"

\* the render function allocates until the isolate reaches the heap limit set
\* by create_runtime.  The near-heap-limit callback writes its line and returns
\* the current limit; it requests no termination, so the allocation that
\* follows cannot be served and the engine ends the process.
NearHeapLimit ==
    /\ pc = "call"
    /\ ~runtime.terminating
    /\ runtime.heap_limit.some
    /\ ChunkRender(entry_specifier, props, runtime.hits).outcome.kind = "heap_exhausted"
    /\ stderr' = Append(stderr, NearHeapLimitLine(runtime.heap_limit.v))
    /\ runtime' = [runtime EXCEPT
                       !.heap_limit = Some(NearHeapLimitCallback(runtime.heap_limit.v))]
    /\ pc' = "crashed"
    /\ UNCHANGED <<config, entry_line, props_line, props, entry_specifier, result,
                   timer, stdout, requests, terminated, answered>>
    /\ UNCHANGED stdin
    /\ UNCHANGED <<sanVars, loaderVars, fetchVars, mainVars>>

\* the render function calls fetch(ForwardUrl) and awaits it: op_fetch starts
\* do_fetch, which refuses at once when the allow-list does not admit the
\* origin (the promise rejects and the render function lets that through) and
\* otherwise sends the request; the driver is then inside run_event_loop with
\* no JavaScript on the stack
AwaitFetch ==
    /\ pc = "call"
    /\ ~runtime.terminating
    /\ ChunkRender(entry_specifier, props, runtime.hits).outcome.kind = "awaits_fetch"
    /\ \E prepared \in { FetchPrepare(runtime.fetch_config, ForwardUrl, "GET") } :
          IF prepared.ok
            THEN /\ pc' = "op_fetch"
                 /\ UNCHANGED result
            ELSE /\ pc' = "returned"
                 /\ result' = InspectOutcome(Outcome("rejected", "Error: " \o prepared.err),
                                             runtime.console)
    /\ UNCHANGED <<config, runtime, entry_line, props_line, props, entry_specifier, timer,
                   stdout, stderr, requests, terminated, answered>>
    /\ UNCHANGED stdin
    /\ UNCHANGED <<sanVars, loaderVars, fetchVars, mainVars>>

\* do_fetch receives one more redirect of the chain /a -> /b -> /a ... on the
\* allowed origin and follows it; it keeps no count of the hops, and a
\* termination request is only acted upon by running JavaScript
FetchHop ==
    /\ pc \in {"op_fetch", "op_fetch_redirected"}
    /\ pc' = IF pc = "op_fetch" THEN "op_fetch_redirected" ELSE "op_fetch"
    /\ UNCHANGED <<config, runtime, entry_line, props_line, props, entry_specifier, result,
                   timer, stdout, stderr, requests, terminated, answered>>
    /\ UNCHANGED stdin
    /\ UNCHANGED <<sanVars, loaderVars, fetchVars, mainVars>>

\* the timer task: sleep is over, isolate_handle.terminate_execution()
TimerFire ==
    /\ timer = "armed"
    /\ pc \in {"js", "call", "returned", "op_fetch", "op_fetch_redirected"}
    /\ timer' = "fired"
    /\ runtime' = [runtime EXCEPT !.terminating = TRUE]
    /\ UNCHANGED <<config, pc, entry_line, props_line, props, entry_specifier, result,
                   stdout, stderr, requests, terminated, answered>>
    /\ UNCHANGED stdin
    /\ UNCHANGED <<sanVars, loaderVars, fetchVars, mainVars>>

\* the engine stops the JS that is running, or about to run, in an isolate
\* with a pending termination request.  What a stopped render function had
\* done to the isolate by then is left open.
JsTerminated ==
    /\ pc \in {"js", "call"}
    /\ runtime.terminating
    /\ \E e \in TerminationErrors : result' = Err(e)
    /\ \E rt \in { runtime } \cup
                  { DispatcherCall(runtime,
                                   ChunkRender(entry_specifier, props, runtime.hits)) :
                      b \in { x \in {TRUE} : pc = "call" } } :
            runtime' = [rt EXCEPT !.terminating = FALSE]
    /\ terminated' = TRUE
    /\ pc' = "returned"
    /\ UNCHANGED <<config, entry_line, props_line, props, entry_specifier, timer, stdout,
                   stderr, requests, answered>>
    /\ UNCHANGED stdin
    /\ UNCHANGED <<sanVars, loaderVars, fetchVars, mainVars>>

\* execute_ssr after execute_ssr_inner: timeout_handle.abort() and the match
ExecFinish ==
    /\ pc = "returned"
    /\ timer' = IF timer = "armed" THEN "aborted" ELSE timer
    /\ result' = MapTermination(result, config.timeout_ms)
    /\ pc' = "respond"
    /\ UNCHANGED <<config, runtime, entry_line, props_line, props, entry_specifier, stdout, stderr,
                   requests, terminated, answered>>
    /\ UNCHANGED stdin
    /\ UNCHANGED <<sanVars, loaderVars, fetchVars, mainVars>>

\* run_server: the match on the result of execute_ssr, then the console reset
Respond ==
    /\ pc = "respond"
    /\ IF result.ok
       THEN /\ stderr' = stderr \o ConsoleLines(result.val.console)
            /\ stdout' = write_response(stdout, TRUE, result.val.html)
            /\ runtime' = ResetConsole(runtime)
       ELSE /\ stdout' = write_response(stdout, FALSE, result.err)
            /\ stderr' = IF is_timeout(result.err)
                         THEN Append(stderr, "[ssr-sandbox] Recreating runtime after timeout")
                         ELSE stderr
            /\ runtime' = ResetConsole(RuntimeAfterError(runtime, result.err, config))
    /\ answered' = [any |-> TRUE, terminated |-> terminated,
                    timed_out |-> ~result.ok /\ StartsWith(result.err, "Render timed out after "),
                    rejected |-> FALSE, isolate |-> runtime.id]
    /\ pc' = "read_entry"
    /\ UNCHANGED <<config, entry_line, props_line, props, entry_specifier, result, timer, requests,
                   terminated>>
    /\ UNCHANGED stdin
    /\ UNCHANGED <<sanVars, loaderVars, fetchVars, mainVars>>

Next ==
    \/ ControllerWrite
    \/ ReadEntry
    \/ ReadEof
    \/ ReadProps
    \/ ParseProps
    \/ ExecStart
    \/ ImportEntry
    \/ RunJs
    \/ NearHeapLimit
    \/ AwaitFetch
    \/ FetchHop
    \/ TimerFire
    \/ JsTerminated
    \/ ExecFinish
    \/ Respond

Spec == Init /\ [][Next]_vars

\* The scheduling of the server binary.  The driver is the future main blocks
\* on, so each of its steps is taken once it can be; the timer task is spawned
\* onto the multi-threaded runtime of #[tokio::main] and runs on a worker
\* thread while the driver is busy; the engine tests the termination request
\* at the next loop edge or call of running JavaScript; the server behind
\* ForwardUrl answers every request.  Nothing is assumed of the controller.
\* the steps of the driver, the future main blocks on
DriverStep ==
    \/ ReadEntry \/ ReadEof \/ ReadProps \/ ParseProps \/ ExecStart \/ ImportEntry
    \/ RunJs \/ AwaitFetch \/ ExecFinish \/ Respond

\* the states in which the driver has a step to take
DriverCanStep ==
    \/ pc \in {"read_entry", "read_props"} /\ stdin # << >>
    \/ pc \in {"parse", "execute", "returned", "respond"}
    \/ pc = "js" /\ ~runtime.terminating
    \/ /\ pc = "call"
       /\ ~runtime.terminating
       /\ ChunkRender(entry_specifier, props, runtime.hits).outcome.kind
             \notin {"never", "heap_exhausted"}

\* weak fairness of the driver, with the states that enable it written out
DriverFair == []<>(~DriverCanStep) \/ []<><<DriverStep>>_vars

Fairness ==
    /\ DriverFair
    /\ WF_vars(TimerFire) /\ WF_vars(JsTerminated)
    /\ WF_vars(NearHeapLimit) /\ WF_vars(FetchHop)

MaxLiveRequests == 1   \* requests of a controller in the runs checked for progress

\* a controller that sends fewer requests
ControllerWriteFew == ControllerWriteUpTo(MaxLiveRequests)

NextLive ==
    \/ ControllerWriteFew
    \/ ReadEntry
    \/ ReadEof
    \/ ReadProps
    \/ ParseProps
    \/ ExecStart
    \/ ImportEntry
    \/ RunJs
    \/ NearHeapLimit
    \/ AwaitFetch
    \/ FetchHop
    \/ TimerFire
    \/ JsTerminated
    \/ ExecFinish
    \/ Respond

SpecLive == Init /\ [][NextLive]_vars /\ Fairness

(* execute_ssr, called by a user of the crate *)

MaxCalls == 2   \* execute_ssr calls a caller makes on one isolate

\* the SandboxConfig of a caller; timeout_ms is what it passes to execute_ssr
LibConfigs ==
    { [ chunks_dir      |-> "/srv/chunks",
        max_heap_size   |-> Some(DEFAULT_HEAP_MB * 1024 * 1024),
        timeout_ms      |-> t,
        allowed_origins |-> o ] : t \in { NoneN, Some(100) },
                                  o \in { << >>, <<"https://api.example.com">> } }

\* the props of a caller: any serde_json::Value
LibProps ==
    { EmptyObject,
      from_str("{\"title\":\"h^\"}").val,
      from_str("{\"a\":{\"__proto__\":1}}").val,
      from_str(DeepLine).val }

\* create_runtime(&config), then execute_ssr is entered
LibInit ==
    /\ SanIdle
    /\ LoaderIdle
    /\ FetchIdle
    /\ MainIdle
    /\ config \in LibConfigs
    /\ runtime = create_runtime(config, 1)
    /\ pc = "execute"
    /\ entry_line \in EntryInputs
    /\ props_line = ""
    /\ props \in LibProps
    /\ entry_specifier = ""
    /\ result = Err("")
    /\ timer = "none"
    /\ stdout = [buf |-> "", flushed |-> <<>>]
    /\ stderr = << >>
    /\ requests = 1
    /\ terminated = FALSE
    /\ answered = NoAnswer
    /\ stdin = << >>

\* execute_ssr returns to its caller
LibReturn ==
    /\ pc = "respond"
    /\ pc' = "done"
    /\ UNCHANGED <<config, runtime, entry_line, props_line, props, entry_specifier, result,
                   timer, stdout, stderr, requests, terminated, answered>>
    /\ UNCHANGED stdin
    /\ UNCHANGED <<sanVars, loaderVars, fetchVars, mainVars>>

\* the caller calls execute_ssr again, on the same isolate
LibCallAgain ==
    /\ pc = "done"
    /\ requests < MaxCalls
    /\ entry_line' \in EntryInputs
    /\ props' \in LibProps
    /\ entry_specifier' = ""
    /\ result' = Err("")
    /\ timer' = "none"
    /\ terminated' = FALSE
    /\ requests' = requests + 1
    /\ pc' = "execute"
    /\ UNCHANGED <<config, runtime, props_line, stdout, stderr, answered>>
    /\ UNCHANGED stdin
    /\ UNCHANGED <<sanVars, loaderVars, fetchVars, mainVars>>

LibNext ==
    \/ LibCallAgain
    \/ ExecStart
    \/ ImportEntry
    \/ RunJs
    \/ NearHeapLimit
    \/ AwaitFetch
    \/ FetchHop
    \/ TimerFire
    \/ JsTerminated
    \/ ExecFinish
    \/ LibReturn

SpecLib == LibInit /\ [][LibNext]_vars

(* fetch *)

MaxHops == 3   \* HTTP requests one fetch call sends before the chain is cut

\* FetchConfig.allowed_origins as the --allow-origin arguments give it
AllowLists ==
    { << >>,
      <<"https://api.example.com">>,
      <<"https://api.example.com", "http://localhost:3000">>,
      <<"https://api.example.com:443">>,
      <<"HTTPS://api.example.com">>,
      <<"null">> }

\* the URLs render code passes to fetch
FetchUrls ==
    { "https://api.example.com/data",
      "http://api.example.com/data",
      "https://api.example.com:8443/data",
      "https://api.example.com:443/data",
      "HTTPS://API.Example.com/data",
      "https://user@api.example.com/data",
      "https://api.example.com.evil.com/data",
      "https://evil.com/data",
      "http://localhost:3000/api",
      "http://localhost/api",
      "file:///etc/passwd",
      "/data" }

\* the method option of a FetchRequest
FetchMethods == { NoneS, Some("post"), Some("TRACE") }

\* the headers option of a FetchRequest
FetchHeaders == { NoneS, Some("authorization: t") }

\* the Location headers a server answers with
Locations ==
    { "/next",
      "other",
      "https://api.example.com/moved",
      "http://api.example.com/moved",
      "https://api.example.com:8443/moved",
      "http://localhost:3000/api",
      "//evil.com/x",
      "https://evil.com/" }

\* the status codes a server answers with
Statuses == {200, 404, 301, 303, 307}

FetchInit ==
    /\ SanIdle
    /\ LoaderIdle
    /\ ServerIdle
    /\ MainIdle
    /\ fAllowed \in AllowLists
    /\ fOriginal \in FetchUrls
    /\ \E m \in FetchMethods, h \in FetchHeaders :
          fRequest = [url |-> fOriginal, method |-> m, headers |-> h, body |-> m.some]
    /\ fUrl = WebUrl("", "", 0, "")
    /\ fSent = << >>
    /\ fResponse = NoResponse
    /\ fResult = Err("")
    /\ fPc = "call"

\* do_fetch from its entry to the request being sent (lines 84-131)
DoFetch ==
    /\ fPc = "call"
    /\ \E url \in { FetchPrepare(fAllowed, fRequest.url,
                                 IF fRequest.method.some THEN fRequest.method.v ELSE "GET") } :
          IF ~url.ok
          THEN /\ fResult' = url
               /\ fPc' = "done"
               /\ UNCHANGED <<fUrl, fSent>>
          ELSE IF url.val.scheme \notin {"http", "https"}
          THEN /\ fResult' = Err("Fetch failed: builder error")
               /\ fPc' = "done"
               /\ UNCHANGED <<fUrl, fSent>>
          ELSE /\ Len(fSent) < MaxHops
               /\ fUrl' = url.val
               /\ fSent' = Append(fSent, [url |-> url.val,
                                          method |-> MethodOf(IF fRequest.method.some
                                                              THEN fRequest.method.v
                                                              ELSE "GET").val,
                                          headers |-> fRequest.headers,
                                          body |-> fRequest.body])
               /\ fPc' = "sent"
               /\ UNCHANGED fResult
    /\ UNCHANGED <<fAllowed, fOriginal, fRequest, fResponse>>
    /\ UNCHANGED <<sanVars, loaderVars, serverVars, mainVars>>

\* send().await fails: no response
SendFails ==
    /\ fPc = "sent"
    /\ fResult' = Err("Fetch failed: error sending request")
    /\ fPc' = "done"
    /\ UNCHANGED <<fAllowed, fOriginal, fRequest, fUrl, fSent, fResponse>>
    /\ UNCHANGED <<sanVars, loaderVars, serverVars, mainVars>>

\* do_fetch from the response on (lines 133-193): a response that is no
\* redirect, or a redirect without Location, is the result
FetchRespond(status, location) ==
    /\ fPc = "sent"
    /\ ~(is_redirection(status) /\ location.some)
    /\ fResponse' = [status |-> status, location |-> location]
    /\ fResult' = Ok([ok |-> status >= 200 /\ status < 300,
                      status |-> status,
                      url |-> WebUrlString(fUrl)])
    /\ fPc' = "done"
    /\ UNCHANGED <<fAllowed, fOriginal, fRequest, fUrl, fSent>>
    /\ UNCHANGED <<sanVars, loaderVars, serverVars, mainVars>>

\* do_fetch from the response on (lines 133-170): a redirect with a Location
Redirect(status, location) ==
    /\ fPc = "sent"
    /\ is_redirection(status)
    /\ fResponse' = [status |-> status, location |-> Some(location)]
    /\ \E joined \in { WebUrlJoin(fUrl, location) } :
          IF ~joined.ok
          THEN /\ fResult' = Err("Invalid redirect URL: " \o joined.err)
               /\ fPc' = "done"
               /\ UNCHANGED fRequest
          ELSE \E checked \in { RedirectCheck(fAllowed, fUrl, joined.val) } :
                  IF ~checked.ok
                  THEN /\ fResult' = checked
                       /\ fPc' = "done"
                       /\ UNCHANGED fRequest
                  ELSE /\ fRequest' = RedirectRequest(fRequest, checked.val)
                       /\ fPc' = "call"
                       /\ UNCHANGED fResult
    /\ UNCHANGED <<fAllowed, fOriginal, fUrl, fSent>>
    /\ UNCHANGED <<sanVars, loaderVars, serverVars, mainVars>>

FetchNext ==
    \/ DoFetch
    \/ SendFails
    \/ \E status \in Statuses, location \in {NoneS, Some("/next")} :
          FetchRespond(status, location)
    \/ \E status \in Statuses, location \in Locations : Redirect(status, location)

SpecFetch == FetchInit /\ [][FetchNext]_vars

(* main *)

\* the values given to --timeout and to --max-heap-size
TimeoutTexts == { NoneS, Some("0"), Some("100"), Some("soon") }

HeapTexts == { NoneS, Some("0"), Some("128"), Some("big") }

\* the positional arguments that are left when the options are filtered out
Positionals ==
    { << >>,
      <<"--server">>,
      <<"--server", "/srv/chunks">>,
      <<"/srv/chunks">>,
      <<"/srv/chunks", "entry.js">>,
      <<"/srv/chunks", "entry.js", "{\"title\":\"h\"}">> }

MainInit ==
    /\ SanIdle
    /\ LoaderIdle
    /\ ServerIdle
    /\ FetchIdle
    /\ \E h \in HeapTexts, t \in TimeoutTexts, p \in Positionals,
          o \in { << >>, <<"https://api.example.com">> } :
          mArgs = [heap |-> h, timeout |-> t, origins |-> o, positional |-> p]
    /\ mOptions = [max_heap_size |-> NoneN, timeout_ms |-> NoneN]
    /\ mConfig = ServerConfig("", NoneN, NoneN, << >>)
    /\ mExec = NotCalled
    /\ mExit = Err("")
    /\ mPc = "main"

\* main: the options are parsed, 0 is turned into None, the mode is chosen
Main ==
    /\ mPc = "main"
    /\ mOptions' = [max_heap_size |-> ZeroToNone(parse_heap_size(mArgs.heap)),
                    timeout_ms |-> ZeroToNone(parse_timeout(mArgs.timeout))]
    /\ IF Len(mArgs.positional) < 1
       THEN mPc' = "exit" /\ mExit' = Err("Missing required arguments")
       ELSE IF mArgs.positional[1] = "--server"
       THEN IF Len(mArgs.positional) < 2
            THEN mPc' = "exit" /\ mExit' = Err("Server mode requires chunks-dir argument")
            ELSE mPc' = "run_server" /\ UNCHANGED mExit
       ELSE IF Len(mArgs.positional) < 2
            THEN mPc' = "exit" /\ mExit' = Err("Missing required arguments")
            ELSE mPc' = "run_single_shot" /\ UNCHANGED mExit
    /\ UNCHANGED <<mArgs, mConfig, mExec>>
    /\ UNCHANGED <<sanVars, loaderVars, serverVars, fetchVars>>

\* run_server up to the loop
RunServer ==
    /\ mPc = "run_server"
    /\ mConfig' = ServerConfig(mArgs.positional[2], mOptions.max_heap_size,
                               mOptions.timeout_ms, mArgs.origins)
    /\ mPc' = "serving"
    /\ UNCHANGED <<mArgs, mOptions, mExec, mExit>>
    /\ UNCHANGED <<sanVars, loaderVars, serverVars, fetchVars>>

\* run_server: the execute_ssr call of a request
ServeRequest ==
    /\ mPc = "serving"
    /\ ~mExec.called
    /\ mExec' = [called |-> TRUE, timeout_ms |-> mConfig.timeout_ms]
    /\ UNCHANGED <<mArgs, mOptions, mConfig, mExit, mPc>>
    /\ UNCHANGED <<sanVars, loaderVars, serverVars, fetchVars>>

\* run_server: end of input
ServeEof ==
    /\ mPc = "serving"
    /\ mExit' = Ok("")
    /\ mPc' = "exit"
    /\ UNCHANGED <<mArgs, mOptions, mConfig, mExec>>
    /\ UNCHANGED <<sanVars, loaderVars, serverVars, fetchVars>>

\* run_single_shot
RunSingleShot ==
    /\ mPc = "run_single_shot"
    /\ \E single \in { SingleShotConfig(mArgs.positional[1], mOptions.max_heap_size,
                                        mOptions.timeout_ms, mArgs.origins) } :
          /\ mConfig' = single
          /\ mExec' = [called |-> TRUE, timeout_ms |-> single.timeout_ms]
    /\ mExit' = Ok("")
    /\ mPc' = "exit"
    /\ UNCHANGED <<mArgs, mOptions>>
    /\ UNCHANGED <<sanVars, loaderVars, serverVars, fetchVars>>

MainNext ==
    \/ Main
    \/ RunServer
    \/ ServeRequest
    \/ ServeEof
    \/ RunSingleShot

SpecMain == MainInit /\ [][MainNext]_vars

-----------------------------------------------------------------------------
(* Properties of the sanitizer                                             *)

ForbiddenKeys == {"__proto__", "constructor", "prototype"}

RECURSIVE HasForbiddenKey(_)
\* v contains a forbidden key in some object at some depth
HasForbiddenKey(v) ==
    \/ /\ v.kind = "obj"
       /\ \E i \in 1..Len(v.fields) :
             v.fields[i][1] \in ForbiddenKeys \/ HasForbiddenKey(v.fields[i][2])
    \/ /\ v.kind = "arr"
       /\ \E i \in 1..Len(v.items) : HasForbiddenKey(v.items[i])

SetMax(S) == CHOOSE m \in S : \A x \in S : x <= m

Children(v) ==
    IF v.kind = "obj" THEN { v.fields[i][2] : i \in 1..Len(v.fields) }
    ELSE IF v.kind = "arr" THEN { v.items[i] : i \in 1..Len(v.items) }
    ELSE {}

RECURSIVE NestDepth(_)
\* the largest number of arrays/objects that enclose any value inside v
NestDepth(v) ==
    IF Children(v) = {} THEN 0
    ELSE 1 + SetMax({ NestDepth(c) : c \in Children(v) })

C10_Original ==
    sPc = "done" =>
        /\ sResult.ok => NestDepth(sResult.val) <= 32
        /\ NestDepth(sInput) > 32 =>
              ~sResult.ok /\ Contains(sResult.err, "too deep")
        /\ (NestDepth(sInput) <= 32 /\ ~HasForbiddenKey(sInput)) => sResult.ok

\* C10 as amended: every returned value has nesting depth at most 32, every
\* value of nesting depth above 32 is rejected, with a "too deep" error when
\* it holds no forbidden key, and a value of nesting depth at most 32 without
\* forbidden key is accepted.
C10_DepthLimit ==
    sPc = "done" =>
        /\ sResult.ok => NestDepth(sResult.val) <= 32
        /\ NestDepth(sInput) > 32 =>
              /\ ~sResult.ok
              /\ ~HasForbiddenKey(sInput) => Contains(sResult.err, "too deep")
        /\ (NestDepth(sInput) <= 32 /\ ~HasForbiddenKey(sInput)) => sResult.ok

\* A value nested exactly one level past the limit was rejected as too deep.
C10_Witness ==
    /\ sPc = "done"
    /\ NestDepth(sInput) = 33
    /\ ~HasForbiddenKey(sInput)
    /\ ~sResult.ok
    /\ Contains(sResult.err, "too deep")

\* C11: a value sanitize_props returns is its input (the same primitive, the
\* same elements in the same order, the same key/value pairs), and
\* sanitizing the returned value again returns it again.
C11_SanitizeIdentity ==
    (sPc = "done" /\ sResult.ok) =>
        /\ sResult.val = sInput
        /\ sanitize_props(sResult.val) = sResult

\* an object of two entries, one of them a container, was accepted
C11_Witness ==
    /\ sPc = "done"
    /\ sResult.ok
    /\ sInput.kind = "obj"
    /\ Len(sInput.fields) = 2
    /\ \E i \in 1..2 : sInput.fields[i][2].kind # "prim"

-----------------------------------------------------------------------------
(* Properties of the loader                                                *)

\* p lies in base or below it, compared component by component
IsUnder(p, base) ==
    /\ Len(p) >= Len(base)
    /\ \A i \in 1..Len(base) : p[i] = base[i]

\* the canonical chunks_dir
CanonicalChunksDir == Canonicalize(lChunksDir).val

\* the path a URL names, and the file the kernel reaches through it
RequestedPath(u) == to_file_path(u).val
ReachedFile(u) == Canonicalize(RequestedPath(u))

\* the extension of a file name: the text after its last dot
NameExtension(name) ==
    LET i == LastIndexOf(name, ".")
    IN  IF i <= 1 THEN "" ELSE SubSeq(name, i + 1, Len(name))

HasJsExtension(comps) ==
    comps # <<>> /\ NameExtension(comps[Len(comps)]) \in {"js", "mjs"}

\* the URL load was called with, in the states after a load
LoadedUrl == IF lPc = "direct" THEN UrlParse(lSpecifier).val ELSE lResolved.val

\* C6: every file whose content was read (entry module or import, whatever
\* the shape of the specifier) has a canonical path inside the canonical
\* chunks_dir, compared by whole components; resolve and load return an
\* error for every other path.
C6_Containment ==
    /\ \A f \in lReads : IsUnder(PathComponents(f), CanonicalChunksDir)
    /\ (lPc \in {"resolved", "loaded"} /\ lResolved.ok) =>
          /\ ReachedFile(lResolved.val).ok
          /\ IsUnder(ReachedFile(lResolved.val).val, CanonicalChunksDir)
    /\ (lPc \in {"loaded", "direct"} /\ lLoaded.ok) =>
          /\ ReachedFile(LoadedUrl).ok
          /\ IsUnder(ReachedFile(LoadedUrl).val, CanonicalChunksDir)
          /\ lReads = {PathString(ReachedFile(LoadedUrl).val)}
    /\ (lPc \in {"loaded", "direct"} /\ ~lLoaded.ok) => lReads = {}

\* A module behind a symbolic link that stays inside chunks_dir was loaded
\* through a chunks_dir that is itself a symbolic link.
C6_Witness ==
    /\ lPc = "loaded"
    /\ lChunksDir = "/app"
    /\ lSpecifier = "./good.js"
    /\ lLoaded.ok
    /\ lReads = {"/srv/chunks/sub/mod.js"}

\* C7: the loader reads only files whose extension is .js or .mjs: resolve
\* and load reject a path with another extension, and the file actually read
\* through a symbolic link has extension .js or .mjs too.
C7_Original ==
    /\ \A f \in lReads : HasJsExtension(PathComponents(f))
    /\ (lPc \in {"resolved", "loaded"} /\ lResolved.ok) =>
          HasJsExtension(PathComponents(RequestedPath(lResolved.val)))
    /\ (lPc \in {"loaded", "direct"} /\ lLoaded.ok) =>
          HasJsExtension(PathComponents(RequestedPath(LoadedUrl)))

\* the scheme of a specifier: the text before its first colon, in lower case
SchemeOf(s) ==
    LET i == IndexOf(s, ":")
    IN  IF i <= 1 THEN "" ELSE ToLower(SubSeq(s, 1, i - 1))

-----------------------------------------------------------------------------
(* Properties of fetch                                                     *)

\* the URL the caller passed, parsed
OriginalUrl == WebUrlParse(fOriginal).val

\* the serialized origin of url is, as a string, an element of the list
ExactlyListed(list, url) ==
    \E i \in 1..Len(list) : list[i] = ascii_serialization(Origin(url))

\* some element of the list names the scheme, the host and the port of url
\* (or is "null", for a URL without a tuple origin)
SchemeHostPortListed(list, url) ==
    \E i \in 1..Len(list) :
        \/ /\ WebUrlParse(list[i]).ok
           /\ ~Origin(url).opaque
           /\ ~Origin(WebUrlParse(list[i]).val).opaque
           /\ WebUrlParse(list[i]).val.scheme = url.scheme
           /\ WebUrlParse(list[i]).val.host = url.host
           /\ Origin(WebUrlParse(list[i]).val).port = Origin(url).port
        \/ /\ list[i] = "null"
           /\ Origin(url).opaque

\* the call ended at the policy check
PolicyBlocked == fPc = "done" /\ StartsWith(fResult.err, "Fetch blocked: origin '")

\* C13: a fetch passes the origin policy check if and only if the serialized
\* origin of its URL equals, as a string, some element of allowed_origins; a
\* URL passes only if an element names its scheme, host and port; with an
\* empty allowlist every fetch is rejected.
C13_OriginPolicy ==
    [][ (fPc = "call" /\ WebUrlParse(fRequest.url).ok) =>
            /\ PolicyBlocked' <=> ~ExactlyListed(fAllowed, WebUrlParse(fRequest.url).val)
            /\ (fAllowed = << >>) => PolicyBlocked'
            /\ ~PolicyBlocked' =>
                   SchemeHostPortListed(fAllowed, WebUrlParse(fRequest.url).val) ]_vars

C13_Witness ==
    /\ fPc = "sent"
    /\ Len(fSent) = 1
    /\ fOriginal = "HTTPS://API.Example.com/data"
    /\ fAllowed = <<"https://api.example.com", "http://localhost:3000">>

\* the response received is a redirect whose Location resolves to an origin
\* other than the origin of the URL passed to fetch
RedirectElsewhere(response) ==
    /\ is_redirection(response.status)
    /\ response.location.some
    /\ WebUrlJoin(fUrl, response.location.v).ok
    /\ ~OriginEq(Origin(WebUrlJoin(fUrl, response.location.v).val), Origin(OriginalUrl))

\* C14: every HTTP request one fetch call sends, the first and each redirect
\* hop, targets the origin of the URL passed to fetch, and that origin is in
\* allowed_origins; a redirect whose Location resolves to another origin ends
\* the fetch with an error and sends nothing.
C14_RedirectsStayOnOrigin ==
    /\ [](\A i \in 1..Len(fSent) :
             /\ OriginEq(Origin(fSent[i].url), Origin(OriginalUrl))
             /\ ExactlyListed(fAllowed, fSent[i].url)
             /\ ExactlyListed(fAllowed, OriginalUrl))
    /\ [][ (fPc = "sent" /\ fResponse' # fResponse /\ RedirectElsewhere(fResponse')) =>
              /\ fPc' = "done"
              /\ ~fResult'.ok
              /\ StartsWith(fResult'.err, "Fetch blocked: redirect")
              /\ fSent' = fSent ]_vars

C14_Witness ==
    /\ Len(fSent) = MaxHops
    /\ fPc = "done"
    /\ StartsWith(fResult.err, "Fetch blocked: redirect to different origin")
    /\ fResponse.location = Some("http://localhost:3000/api")
    /\ Len(fAllowed) = 2

\* C26: the request that follows a 3xx response with a Location header is a
\* GET to the Location resolved against the URL of the answered request, with
\* the headers of the original request and without body, whatever the method
\* and the 3xx status were; a 3xx response without Location is the result of
\* the fetch, and nothing more is sent.
C26_RedirectRequest ==
    /\ [][ (fPc = "sent" /\ fPc' = "call") =>
              /\ is_redirection(fResponse'.status)
              /\ fResponse'.location.some
              /\ fRequest' = [ url |-> WebUrlString(WebUrlJoin(fUrl, fResponse'.location.v).val),
                               method |-> Some("GET"),
                               headers |-> fSent[1].headers,
                               body |-> FALSE ] ]_vars
    /\ [][ (fPc = "call" /\ fPc' = "sent" /\ Len(fSent) >= 1) =>
              fSent'[Len(fSent')] =
                  [ url |-> WebUrlJoin(fSent[Len(fSent)].url, fResponse.location.v).val,
                    method |-> "GET",
                    headers |-> fSent[1].headers,
                    body |-> FALSE ] ]_vars
    /\ [][ (fPc = "sent" /\ fResponse' # fResponse
            /\ is_redirection(fResponse'.status) /\ ~fResponse'.location.some) =>
              /\ fPc' = "done"
              /\ fResult'.ok
              /\ fResult'.val.status = fResponse'.status
              /\ fSent' = fSent ]_vars

C26_Witness ==
    /\ fPc = "sent"
    /\ Len(fSent) = 2
    /\ fSent[1].method = "POST"
    /\ fSent[1].body
    /\ fSent[1].headers.some
    /\ fSent[2].method = "GET"
    /\ fResponse = [status |-> 307, location |-> Some("other")]

-----------------------------------------------------------------------------
(* Properties of main                                                      *)

\* a SandboxConfig has been built
Configured == mPc = "serving" \/ (mPc = "exit" /\ mExit.ok)

\* C16, as the spec states it: with --timeout 0 the SandboxConfig used has no
\* timeout_ms and execute_ssr is called with no timeout; with
\* --max-heap-size 0 the SandboxConfig used has no max_heap_size.
C16_Original ==
    /\ (Configured /\ mArgs.timeout = Some("0")) =>
          /\ ~mConfig.timeout_ms.some
          /\ mExec.called => ~mExec.timeout_ms.some
    /\ (Configured /\ mArgs.heap = Some("0")) => ~mConfig.max_heap_size.some

-----------------------------------------------------------------------------
(* Properties of execute_ssr                                               *)

\* what the render function of the entry module does when it is called
RenderOutcome == ChunkRender(entry_specifier, props, 0).outcome

\* execute_ssr has returned; the render function was called, and neither the
\* timer fired nor the engine terminated anything
RenderedInTime ==
    /\ pc = "done"
    /\ entry_specifier \in runtime.cache
    /\ timer # "fired"
    /\ ~terminated

\* C17, as the spec states it: a promise still pending when the event loop
\* has run to completion gives the error "Render function returned unresolved
\* promise", whatever timeout_ms is.
C17_Original ==
    (RenderedInTime /\ RenderOutcome.kind = "pending") =>
        result = Err("Render function returned unresolved promise")

\* C18, as the spec states it: whatever timeout_ms is, a string s (plain or
\* the value of a fulfilled promise) gives success with html = s, a promise
\* rejected with reason r gives "Render function threw: <r>", and any other
\* value gives "Render function must return a string".
C18_Original ==
    /\ (RenderedInTime /\ RenderOutcome.kind \in {"fulfilled_string", "string"}) =>
          (result.ok /\ result.val.html = RenderOutcome.text)
    /\ (RenderedInTime /\ RenderOutcome.kind = "rejected") =>
          result = Err("Render function threw: " \o RenderOutcome.text)
    /\ (RenderedInTime /\ RenderOutcome.kind = "fulfilled_other") =>
          result = Err("Render function must return a string")

\* C20, as the spec states it: execute_ssr sanitizes props first; props the
\* sanitizer refuses make it return the sanitizer's error, and no JavaScript
\* is handed to the isolate.
C20_Original ==
    ~sanitize_props(props).ok =>
        /\ pc \in {"execute", "respond", "done"}
        /\ pc \in {"respond", "done"} => result = sanitize_props(props)
        /\ runtime.cache = {}

-----------------------------------------------------------------------------
(* Properties of the server                                                *)

\* the text of s before its first line feed
LineOf(s) == IF Contains(s, "\n") THEN SubSeq(s, 1, IndexOf(s, "\n") - 1) ELSE s

\* the text of s after its first line feed
AfterLine(s) == IF Contains(s, "\n") THEN SubSeq(s, IndexOf(s, "\n") + 1, Len(s)) ELSE ""

\* a response as the controller reads it: three lines, then the body
ParseResponse(chunk) ==
    [ status |-> LineOf(chunk),
      length |-> LineOf(AfterLine(chunk)),
      blank  |-> LineOf(AfterLine(AfterLine(chunk))),
      body   |-> AfterLine(AfterLine(AfterLine(chunk))),
      lines  |-> Contains(chunk, "\n") /\ Contains(AfterLine(chunk), "\n")
                 /\ Contains(AfterLine(AfterLine(chunk)), "\n") ]

\* the canonical timeout message for the configured timeout_ms
TimedOutMessage == "Render timed out after " \o ToString(config.timeout_ms.v) \o "ms"

\* the isolate was replaced since the request answered last was served
Recreated == runtime.id # answered.isolate

\* run_server stands between two requests, or has left the loop
BetweenRequests == pc \in {"read_entry", "done"}

\* C1: when the engine terminated the render of a request on the timer's
\* signal, the response to it is Status:Error with the body "Render timed out
\* after Nms", N being the configured timeout_ms, and from then on, so also
\* when the render of the next request starts, `runtime` holds another
\* isolate, which create_runtime has just made when the response is out.
C1_TimeoutRecovery ==
    answered.terminated =>
        /\ Recreated
        /\ BetweenRequests =>
              /\ Len(stdout.flushed) = 1
              /\ ParseResponse(stdout.flushed[1]).status = "Status:Error"
              /\ ParseResponse(stdout.flushed[1]).body = TimedOutMessage
              /\ runtime = create_runtime(config, runtime.id)

\* a render was terminated, answered, and the render of the next request is
\* about to start
C1_Witness ==
    /\ answered.terminated
    /\ pc = "js"
    /\ requests >= 2
    /\ runtime.id = answered.isolate + 1

\* C2, as the spec states it: after a request is answered the isolate has
\* been replaced exactly when the engine terminated that request's execution.
C2_Original ==
    (pc = "read_entry" /\ answered.any) => (Recreated <=> answered.terminated)

\* C3: no byte stays buffered; while a request is in flight nothing has been
\* written for it; and when run_server reads the first line of the next
\* request, or finds the stream closed, exactly one response has been flushed
\* for the request read last, which is the one it answers.
C3_Serialized ==
    /\ stdout.buf = ""
    /\ (BetweenRequests /\ requests = 0) => stdout.flushed = << >>
    /\ (BetweenRequests /\ requests > 0) =>
          /\ Len(stdout.flushed) = 1
          /\ ParseResponse(stdout.flushed[1]).body
                = (IF result.ok THEN result.val.html ELSE result.err)
    /\ ~BetweenRequests => stdout.flushed = << >>

\* the third request has been answered after a request that timed out, and
\* the next line is about to be read
C3_Witness ==
    /\ pc = "read_entry"
    /\ requests = MaxRequests
    /\ Len(stdout.flushed) = 1
    /\ answered.terminated

\* C4: every response flushed is the line Status:Ok or Status:Error, the
\* line Length:N, an empty line and a body whose length in bytes is N; the
\* status is Ok exactly when execute_ssr returned Ok, the body is then its
\* HTML, and otherwise the body is the error message.
C4_ResponseFraming ==
    \A i \in 1..Len(stdout.flushed) :
        LET r == ParseResponse(stdout.flushed[i])
        IN  /\ r.lines
            /\ r.status \in {"Status:Ok", "Status:Error"}
            /\ r.length = "Length:" \o ToString(Utf8Len(r.body))
            /\ r.blank = ""
            /\ (r.status = "Status:Ok") <=> result.ok
            /\ r.body = (IF result.ok THEN result.val.html ELSE result.err)

\* a successful render whose HTML has characters of more than one byte has
\* been answered
C4_Witness ==
    /\ pc = "read_entry"
    /\ Len(stdout.flushed) = 1
    /\ result.ok
    /\ Utf8Len(result.val.html) > Len(result.val.html)
    /\ ParseResponse(stdout.flushed[1]).status = "Status:Ok"

\* the HTML the request in hand yields as the first request of a new process
\* with the same configuration
FirstRequestHtml ==
    ChunkRender(entry_specifier, props, create_runtime(config, 1).hits).outcome.text

\* C5: after a request answered as timed out, the isolate that takes the
\* next request is, its id apart, the isolate create_runtime gives a new
\* process with the same configuration, and when that next request succeeds
\* its HTML is the HTML it yields as the first request of a new process.
C5_FreshAfterTimeout ==
    answered.timed_out =>
        /\ pc \in {"read_entry", "read_props", "parse", "execute", "done"} =>
              [runtime EXCEPT !.id = 1] = create_runtime(config, 1)
        /\ (pc = "respond" /\ result.ok) => result.val.html = FirstRequestHtml

\* a request timed out and the request after it has rendered counter.js,
\* whose HTML shows the module-level state of the isolate
C5_Witness ==
    /\ answered.timed_out
    /\ pc = "respond"
    /\ result.ok
    /\ Trim(entry_line) = "counter.js"
    /\ requests = MaxRequests

\* the props line in hand is not valid JSON, holds a forbidden key, or is
\* nested deeper than the sanitizer allows
RefusedProps ==
    Trim(props_line) \in { "{bad", "{\"a\":{\"__proto__\":1}}", DeepLine }

\* C12: a request whose props line is refused is answered Status:Error in
\* the step that parses it, with no step of the engine, and that step leaves
\* the isolate as it was; nor do the steps that read the next request touch
\* the isolate, so the next request is served by it.
C12_RefusedPropsFrame ==
    /\ [][ (pc = "parse" /\ RefusedProps) =>
              /\ pc' = "read_entry"
              /\ runtime' = runtime
              /\ Len(stdout'.flushed) = 1
              /\ ParseResponse(stdout'.flushed[1]).status = "Status:Error"
              /\ answered'.rejected ]_vars
    /\ [][ (pc \in {"read_entry", "read_props", "parse"}) => (runtime' = runtime) ]_vars
    /\ [](answered.rejected => runtime.id = answered.isolate)

\* a request was refused for its props after an entry had been cached, and
\* the render function of the next request is running in the same isolate
C12_Witness ==
    /\ answered.rejected
    /\ pc = "call"
    /\ requests = MaxRequests
    /\ runtime.id = 1
    /\ Cardinality(runtime.cache) = 2

\* the line run_server prints for one console entry
TaggedLine(emit) ==
    (CASE emit[1] = "log" -> "[LOG] "
       [] emit[1] = "warn" -> "[WARN] "
       [] emit[1] = "error" -> "[ERROR] ") \o emit[2]

\* the console entries of the render of the current request, as emitted
Emitted == ChunkRender(entry_specifier, props, 0).emits

\* C15, as the spec states it: the console entries of a render are printed on
\* standard error in the order in which the JavaScript code emitted them,
\* whatever the methods they were emitted through.
C15_Original ==
    [][ (pc = "respond" /\ result.ok /\ ~terminated) =>
            (stderr' = stderr \o [i \in 1..Len(Emitted) |-> TaggedLine(Emitted[i])]) ]_vars

\* the request in hand ran into an error of its own: its props were refused,
\* or execute_ssr returned an error
RequestError ==
    \/ pc = "respond" /\ ~result.ok
    \/ pc = "parse" /\ (~from_str(Trim(props_line)).ok \/ RefusedProps) /\ Trim(props_line) # ""

\* C19, as the spec states it: run_server goes on to the next request after
\* every request that ends in an error, and its loop ends only when the end of
\* the input is read in place of the first line of a request, after which it
\* returns Ok.
C19_Original ==
    /\ [][ RequestError => (pc' = "read_entry") ]_vars
    /\ [][ (pc' # pc /\ pc' \in {"done", "failed", "crashed"}) =>
              (pc = "read_entry" /\ pc' = "done") ]_vars

\* C25, as the spec states it: execute_ssr clears the isolate's ConsoleOutput
\* when it has taken the snapshot, so the console of a successful call holds
\* the entries emitted during that call and no others.
C25_Original ==
    (RenderedInTime /\ result.ok) =>
        result.val.console = ConsolePushAll(ConsoleOutputDefault, Emitted)

\* a line of standard error that reports a console entry
IsConsoleLine(line) ==
    StartsWith(line, "[LOG] ") \/ StartsWith(line, "[WARN] ") \/ StartsWith(line, "[ERROR] ")

\* C24: in server mode the isolate's ConsoleOutput is empty whenever a render
\* starts and between requests; the console lines written for a request that
\* succeeds are the entries its own render emitted, and a request that fails
\* writes no console line.
C24_ConsoleEmptyAtStart ==
    /\ [](pc \in {"read_entry", "read_props", "parse", "execute"} =>
             runtime.console = ConsoleOutputDefault)
    /\ [][ (pc = "respond" /\ result.ok) =>
              (stderr' = stderr \o ConsoleLines(ConsolePushAll(ConsoleOutputDefault, Emitted)))
       ]_vars
    /\ [][ (pc = "respond" /\ ~result.ok) =>
              (\A i \in 1..Len(stderr') : ~IsConsoleLine(stderr'[i])) ]_vars

C24_Witness ==
    /\ pc = "execute"
    /\ requests = 2
    /\ answered.any
    /\ ~answered.timed_out
    /\ ~answered.rejected
    /\ answered.isolate = runtime.id
    /\ runtime.cache = {"file:///srv/chunks/throwBoom.js"}

\* the unread input is a whole number of requests
AtRequestBoundary(stream) ==
    \/ stream \in { << >>, <<"">> }
    \/ stream \in ControllerWrites
    \/ stream \in AheadRequests

\* C27: each iteration of the loop takes the entry line and then the props
\* line from the input and nothing else, whatever becomes of the request, so
\* the unread input starts at a request whenever the loop is at its top; an
\* empty props line gives the props {}.
C27_TwoLinesPerRequest ==
    /\ [](pc = "read_entry" => AtRequestBoundary(stdin))
    /\ [][ (pc = "read_entry" /\ pc' = "read_props") =>
              (entry_line' = Head(stdin) /\ stdin' = Tail(stdin)) ]_vars
    /\ [][ (pc = "read_props" /\ pc' = "parse") =>
              /\ props_line' = Head(stdin)
              /\ stdin' = (IF Head(stdin) = "" THEN stdin ELSE Tail(stdin)) ]_vars
    /\ [][ (pc \in {"parse", "execute", "js", "call", "op_fetch", "op_fetch_redirected",
                    "returned", "respond"}) =>
              (stdin' = stdin /\ pc' # "read_props") ]_vars
    /\ [][ (pc = "parse" /\ props_line \in {"", "\n"}) =>
              (pc' = "execute" /\ props' = EmptyObject) ]_vars

C27_Witness ==
    /\ pc = "parse"
    /\ requests = 2
    /\ answered.timed_out
    /\ entry_line = "counter.js\n"
    /\ props_line = "{\"title\":\"h^\"}\n"
    /\ stdin = << >>

\* C23, as the spec states it: once execute_ssr has returned for a request,
\* the isolate holds no termination request of that request's timer, under
\* every interleaving of the timer task and the driver; so none is left that
\* could stop the render of the next request.
C23_Original ==
    (pc \in {"respond", "read_entry", "read_props", "parse", "execute"}) =>
        ~runtime.terminating

\* C22, as the spec states it: a render that drives the isolate to its
\* configured heap cap is ended the way a timeout ends it: the heap limit stays
\* what it was, the execution is terminated and execute_ssr_inner returns an
\* error to the driver, which answers the request and recreates the isolate.
C22_Original ==
    [][ (/\ pc = "call"
         /\ ~runtime.terminating
         /\ runtime.heap_limit.some
         /\ ChunkRender(entry_specifier, props, runtime.hits).outcome.kind = "heap_exhausted"
         /\ pc' # pc) =>
            (/\ pc' = "returned"
             /\ terminated'
             /\ ~result'.ok
             /\ runtime'.heap_limit = runtime.heap_limit) ]_vars

\* the render function of the request in hand is inside an endless loop
SpinsForever ==
    /\ pc = "call"
    /\ ChunkRender(entry_specifier, props, runtime.hits).outcome.kind = "never"

\* under the scheduling of the binary the timer stops a render function that
\* loops without awaiting, and the request is answered
LoopIsStopped == (SpinsForever /\ config.timeout_ms.some) ~> (pc = "read_entry")

\* the render function of the request in hand stays within the heap cap
WithinHeapCap ==
    ChunkRender(entry_specifier, props, runtime.hits).outcome.kind # "heap_exhausted"

\* C21, as the spec states it: with timeout_ms set, every call of execute_ssr
\* eventually returns and the server answers the request, also when the render
\* function awaits a fetch whose same-origin redirect chain never ends.
C21_Original ==
    (pc = "call" /\ config.timeout_ms.some /\ WithinHeapCap) ~> (pc = "read_entry")

=============================================================================
